---- MODULE Spec2Model ----
(***************************************************************************)
(* A model of the thingino_onvif device session (device.py).              *)
(*                                                                         *)
(* Part 1: the transport session: ONVIFDevice._async_onvif_call and        *)
(*         ONVIFDevice._async_reset_onvif_client, run by asyncio tasks.    *)
(*         A task is a coroutine; it runs atomically from one await to     *)
(*         the next, so every action below is one such segment.            *)
(* Part 2: ONVIFDevice.async_perform_ptz on top of the transport.          *)
(* Part 3: the PTZ coordinate mapping functions, as operators.             *)
(*                                                                         *)
(* Time is counted in units of 0.2 s (the back-off step of the retry       *)
(* loop).  Axis values are rationals with denominator Scale.               *)
(***************************************************************************)
EXTENDS Integers, Sequences, FiniteSets, TLC

\* ------------------------------------------------------------------ bounds
\* Failures (disconnects, timeouts, faults, close errors) the device and the
\* network inject in one behaviour.
MaxFailures == 3
\* Commands issued in one behaviour.
MaxCommands == 2
\* PTZ commands issued in one behaviour of the PTZ specification.
MaxPtzCommands == 1
\* Longest continuous-move duration a caller asks for, in time units.
MaxDuration == 2

\* --------------------------------------------------------------- constants
\* retries: int = 2, the default of _async_onvif_call.
DefaultRetries == 2

Tasks == {"t1", "t2"}

\* Exception classes an awaited ONVIF operation can raise.  "disconnect" is
\* aiohttp's ServerDisconnectedError, "timeout" the TimeoutError of the
\* session's ClientTimeout, "fault" a zeep Fault (protocol fault, failed
\* authentication), "xml" an XMLParseError, "onvif" an ONVIFError.
NonRetryable == {"timeout", "fault", "xml", "onvif"}

\* The exception classes of const.GET_CAPABILITIES_EXCEPTIONS.
GET_CAPABILITIES_EXCEPTIONS == {"onvif", "fault", "disconnect", "timeout"}

CONTINUOUS_MOVE == "ContinuousMove"
RELATIVE_MOVE == "RelativeMove"
ABSOLUTE_MOVE == "AbsoluteMove"
GOTOPRESET_MOVE == "GotoPreset"
STOP_MOVE == "Stop"
MoveModes == {CONTINUOUS_MOVE, RELATIVE_MOVE, ABSOLUTE_MOVE, GOTOPRESET_MOVE, STOP_MOVE}

Presets == {"1", "2"}
ProfileTokens == {"p0", "p1", "p2"}

VARIABLES
    device,             \* self.device: the id of the current ONVIFCamera client
    onvif_session,      \* self._onvif_session: the id of the current aiohttp session
    clientOpen,         \* ids of the clients created and not closed
    sessionOpen,        \* ids of the aiohttp sessions created and not closed
    resolved,           \* ids of the clients whose update_xaddrs has succeeded
    nextId,             \* the id the next client/session pair gets
    onvif_retry_count,  \* self.onvif_retry_count
    onvif_reset_count,  \* self.onvif_reset_count
    capabilities_ptz,   \* self.capabilities.ptz
    ptz_fallback,       \* self.ptz_fallback (tolerant mode)
    profiles,           \* self.profiles, by token
    active,             \* the tasks the host application runs commands on
    cmd,                \* per task: the command it runs and how far it got
    stack,              \* per task: its _async_onvif_call frames, innermost last
    lastCall,           \* per task: what its last outermost call did
    timer,              \* per task: time left of its asyncio.sleep
    failuresLeft,       \* failures the environment may still inject
    commandsLeft,       \* commands that may still be issued
    overlap,            \* a call was dispatched while another task was resetting
    mp,                 \* the mapping functions' inputs and results (Part 3)
    extras              \* the Thingino extras and the discovery pass (Part 5)

transportVars == <<device, onvif_session, clientOpen, sessionOpen, resolved, nextId,
                   onvif_retry_count, onvif_reset_count>>
setupVars == <<capabilities_ptz, ptz_fallback, profiles, active>>
taskVars == <<cmd, stack, lastCall, timer>>
vars == <<transportVars, setupVars, taskVars, failuresLeft, commandsLeft, overlap, mp,
          extras>>

\* ----------------------------------------------------------------- helpers
Top(s) == s[Len(s)]
Pop(s) == SubSeq(s, 1, Len(s) - 1)
SetTop(s, f) == [s EXCEPT ![Len(s)] = f]

\* A reset runs from the close of the old client until update_xaddrs has
\* returned on the new one.
ResetPhases == {"closing_client", "closing_session", "resolving"}
InReset(t) == \E i \in 1..Len(stack[t]) : stack[t][i].phase \in ResetPhases

\* await asyncio.sleep(0.2 * (attempt + 1)), in units of 0.2 s.
Backoff(attempt) == attempt + 1

\* A retry loop that also catches the session's timeout.
IsRetryableWide(exc) == exc \in {"disconnect", "timeout"}

\* `except ServerDisconnectedError`: the one class the retry loop catches.
IsRetryable(exc) == exc = "disconnect"

\* A retry loop that is one attempt late in giving up.
RetriesExhaustedLate(attempt, retries) == attempt > retries

\* `if attempt >= retries: raise`.
RetriesExhausted(attempt, retries) == attempt >= retries

\* A reset counted twice (once by the retry loop, once by the reset).
BumpResetTwice(n) == n + 2

\* `self.onvif_reset_count += 1`, the first statement of a reset.
BumpReset(n) == n + 1

\* update_xaddrs bound before self.device is reassigned.
XaddrsTargetStale(newDevice, oldDevice) == oldDevice

\* `self.device.update_xaddrs`, read after self.device was assigned.
XaddrsTarget(newDevice, oldDevice) == newDevice

\* A frame of _async_onvif_call whose first `await func()` was just started.
\* func is bound to client `target`.
NewFrame(label, target, rst, rty, dev, sess, copen, sopen) ==
    [label |-> label, target |-> target, attempt |-> 0, phase |-> "inflight",
     invocations |-> 1, first |-> "none", disconnects |-> 0,
     startReset |-> rst, startRetry |-> rty, startDevice |-> dev,
     startSession |-> sess, startClientOpen |-> copen, startSessionOpen |-> sopen,
     old |-> {}, oldSession |-> {}, created |-> {}, closeRaised |-> FALSE,
     resolveTries |-> 0, trace |-> <<>>]

NoCall ==
    [label |-> "none", outcome |-> "none", raisedBy |-> "none", result |-> 0,
     invocations |-> 0, first |-> "none", disconnects |-> 0, resolveTries |-> 0,
     resetDelta |-> 0, retryDelta |-> 0,
     sameClient |-> TRUE, sameSession |-> TRUE, sameOpen |-> TRUE,
     clientLive |-> TRUE, sessionLive |-> TRUE, afterExhausted |-> FALSE]

\* What an outermost call that ends with `outcome` has done, given the state
\* it ends in.
Summary(f, outcome, by, prev, rst, rty, dev, sess, copen, sopen) ==
    [label |-> f.label, outcome |-> outcome, raisedBy |-> by,
     result |-> IF outcome = "ok" THEN f.invocations ELSE 0,
     invocations |-> f.invocations,
     first |-> IF f.first = "none" THEN outcome ELSE f.first,
     disconnects |-> f.disconnects
                     + (IF by = "op" /\ outcome = "disconnect" THEN 1 ELSE 0),
     resolveTries |-> f.resolveTries,
     resetDelta |-> rst - f.startReset, retryDelta |-> rty - f.startRetry,
     sameClient |-> dev = f.startDevice, sameSession |-> sess = f.startSession,
     sameOpen |-> copen = f.startClientOpen /\ sopen = f.startSessionOpen,
     clientLive |-> dev \in copen, sessionLive |-> sess \in sopen,
     afterExhausted |-> prev.outcome = "disconnect"
                        /\ prev.invocations = DefaultRetries + 1]

IdleCmd ==
    [kind |-> "none", stage |-> "idle", status |-> "none", exc |-> "none",
     mode |-> "none", profile |-> "none", preset |-> "none", duration |-> 0,
     service |-> {}, log |-> <<>>, since |-> 0, gap |-> 0, clean |-> TRUE,
     rejected |-> FALSE]

Finished(c, status, exc) == [c EXCEPT !.stage = "done", !.status = status, !.exc = exc]

\* One dispatched invocation, as the device sees it.
Sent(label, profile) == [op |-> label, profile |-> profile]


\* The profiles session setup leaves behind on a PTZ-capable device: every
\* profile has a PTZ configuration (read or synthesized); p0 declares every
\* sub-mode, p1 only relative moves, p2 everything but relative moves.
\* Without the PTZ capability setup attaches no PTZ configuration.
PtzProfile(c, r, a, known, tokens) ==
    [has_ptz |-> TRUE, continuous |-> c, relative |-> r, absolute |-> a,
     presets_known |-> known, presets |-> tokens]
NoPtzProfile ==
    [has_ptz |-> FALSE, continuous |-> FALSE, relative |-> FALSE, absolute |-> FALSE,
     presets_known |-> FALSE, presets |-> {}]
SetupProfiles(ptz) ==
    IF ptz
    THEN [p \in ProfileTokens |->
            CASE p = "p0" -> PtzProfile(TRUE, TRUE, TRUE, TRUE, {"1"})
              [] p = "p1" -> PtzProfile(FALSE, TRUE, FALSE, FALSE, {})
              [] OTHER -> PtzProfile(TRUE, FALSE, TRUE, TRUE, {})]
    ELSE [p \in ProfileTokens |-> NoPtzProfile]

\* ------------------------------------------------- async_perform_ptz guards
\* `profile.ptz and not profile.ptz.<sub-mode>`
Unsupported(p, mode) ==
    /\ p.has_ptz
    /\ \/ mode = CONTINUOUS_MOVE /\ ~p.continuous
       \/ mode = RELATIVE_MOVE /\ ~p.relative
       \/ mode = ABSOLUTE_MOVE /\ ~p.absolute

UnknownPresetAlways(p, mode, preset) == mode = GOTOPRESET_MOVE

\* `profile.ptz and profile.ptz.presets is not None` and
\* `preset_val not in profile.ptz.presets`
UnknownPreset(p, mode, preset) ==
    /\ mode = GOTOPRESET_MOVE
    /\ p.has_ptz /\ p.presets_known
    /\ preset \notin p.presets

RejectedAlways(p, mode, preset, fallback) ==
    Unsupported(p, mode) \/ UnknownPreset(p, mode, preset)

\* The request is dropped (`return`) only when tolerant mode is off.
Rejected(p, mode, preset, fallback) ==
    (Unsupported(p, mode) \/ UnknownPreset(p, mode, preset)) /\ ~fallback

\* The profile token a dispatched operation carries (req.ProfileToken).
SentFor(c, label) == Sent(label, IF label \in MoveModes THEN c.profile ELSE "none")

\* ------------------------------------------------- Thingino extras: data
\* DEFAULT_THINGINO_EXTRAS_ENDPOINTS: the candidate endpoints, in their order.
DEFAULT_THINGINO_EXTRAS_ENDPOINTS == <<"candidate1", "candidate2", "candidate3">>

\* An aux entry of the document: its name, as a base and a trailing state
\* word ("on", "off" or none), and its exec string ("" when missing).
Aux(base, state, exec) == [base |-> base, state |-> state, exec |-> exec]
\* A relay entry of the document: its open and close strings.
JsonRelay(open, close) == [open |-> open, close |-> close]

\* A JSON object document `{aux: [...], relays: [...]}`.
Doc(aux, relays) == [aux |-> aux, relays |-> relays]
AuxLists ==
    { <<>>,
      << Aux("Light", "on", "light1"), Aux("Light", "off", "light0"),
         Aux("Siren", "on", "siren1"), Aux("Reboot", "", "") >> }
RelayLists == { <<>>, << JsonRelay("", "close0"), JsonRelay("open1", "close1") >> }
Docs == {Doc(a, r) : a \in AuxLists, r \in RelayLists}

\* What one endpoint fetch gives _async_fetch_thingino_json: None (transport
\* error, 401, other status, or a body that is no JSON object) or a document.
FetchResults == {<<>>} \cup {<<d>> : d \in Docs}

\* CONF_THINGINO_EXTRAS_JSON: absent, text that is no JSON, a JSON array,
\* or a JSON object.
ManualBlobs ==
    { [kind |-> "absent", doc |-> <<>>], [kind |-> "invalid", doc |-> <<>>],
      [kind |-> "array", doc |-> <<>>] }
    \cup {[kind |-> "object", doc |-> <<d>>] : d \in Docs}

\* The relay outputs the device's DeviceIO service reports, as tokens.
RelayOutputs == { <<>>, <<"relay_a">> }

\* _async_discover_onvif_relays: one ThinginoRelay per output.
OnvifRelays(outputs) ==
    [i \in 1..Len(outputs) |->
        [via_onvif |-> TRUE, index |-> i - 1, token |-> outputs[i],
         open |-> "", close |-> ""]]

\* _parse_thingino_extras, the aux loop: entries with a name and an exec.
ParseAux(doc) ==
    LET Valid(a) == (a.base # "" \/ a.state # "") /\ a.exec # ""
    IN  SelectSeq(doc.aux, Valid)

\* _parse_thingino_extras, the relays loop: entries with open and close, each
\* with the index it has in the document.
ParseRelays(doc) ==
    LET indexed == [i \in 1..Len(doc.relays) |->
                      [via_onvif |-> FALSE, index |-> i - 1, token |-> "",
                       open |-> doc.relays[i].open, close |-> doc.relays[i].close]]
        Valid(r) == r.open # "" /\ r.close # ""
    IN  SelectSeq(indexed, Valid)

\* _split_thingino_toggle_name gives a (base, state) pair.
ToggleHalf(a) == a.base # "" /\ a.state \in {"on", "off"}

\* _build_thingino_aux_toggles: the toggles, in the order in which their base
\* names first occur, each with the exec of the last "on" and the last "off"
\* command of that base.
BuildToggles(commands) ==
    LET n == Len(commands)
        Half(i, b, st) == ToggleHalf(commands[i]) /\ commands[i].base = b
                            /\ commands[i].state = st
        Has(b, st) == \E i \in 1..n : Half(i, b, st)
        Last(b, st) == CHOOSE i \in 1..n :
                          Half(i, b, st) /\ \A j \in (i + 1)..n : ~Half(j, b, st)
        First(i) == /\ ToggleHalf(commands[i])
                    /\ \A j \in 1..(i - 1) :
                          ~(ToggleHalf(commands[j]) /\ commands[j].base = commands[i].base)
        Paired(i) == First(i) /\ Has(commands[i].base, "on")
                       /\ Has(commands[i].base, "off")
        firsts == SelectSeq([i \in 1..n |-> i], Paired)
    IN  [k \in 1..Len(firsts) |->
            [name |-> commands[firsts[k]].base,
             on_exec |-> commands[Last(commands[firsts[k]].base, "on")].exec,
             off_exec |-> commands[Last(commands[firsts[k]].base, "off")].exec]]

\* `remaining = [cmd for cmd in commands if cmd.exec not in used_exec]`
RemainingAux(commands) ==
    LET toggles == BuildToggles(commands)
        used_exec == {toggles[k].on_exec : k \in 1..Len(toggles)}
                       \cup {toggles[k].off_exec : k \in 1..Len(toggles)}
        Unused(a) == a.exec \notin used_exec
    IN  SelectSeq(commands, Unused)

RelaysAppended(x, doc) == x.thingino_relays \o ParseRelays(doc)

\* `if relays: self.thingino_relays = relays`
RelaysAfterParse(x, doc) ==
    IF ParseRelays(doc) # <<>> THEN ParseRelays(doc) ELSE x.thingino_relays

\* _parse_thingino_extras(payload) for a JSON object.
ParseExtras(x, doc) ==
    [x EXCEPT !.thingino_aux_toggles = BuildToggles(ParseAux(doc)),
              !.thingino_aux_commands = RemainingAux(ParseAux(doc)),
              !.thingino_relays = RelaysAfterParse(x, doc)]

\* The session's extras fields after __init__, and the discovery pass not
\* started.  enabled, configured and manual are the entry's options; outputs
\* is what the device's relay-output service holds.
NoExtras ==
    [enabled |-> FALSE, configured |-> "none", manual |-> [kind |-> "absent", doc |-> <<>>],
     outputs |-> <<>>,
     thingino_relays |-> <<>>, thingino_aux_commands |-> <<>>,
     thingino_aux_toggles |-> <<>>, thingino_extras_source |-> "none",
     thingino_extras_endpoint |-> "none", thingino_ptz_mode |-> FALSE,
     onvif_relays |-> <<>>, candidate |-> 0, fetched |-> <<>>, payload |-> <<>>,
     manual_used |-> FALSE]

\* The endpoint the pass fetches next: the configured one, or candidate i.
PendingEndpoint(x) ==
    IF x.configured # "none" THEN x.configured
    ELSE DEFAULT_THINGINO_EXTRAS_ENDPOINTS[x.candidate]

\* async_discover_thingino_extras from the return of the relay probe up to
\* the first endpoint fetch: the ONVIF relays, if any, become the relay list.
ProbeReturned(x, relays) ==
    [x EXCEPT !.onvif_relays = relays,
              !.thingino_relays = IF relays # <<>> THEN relays ELSE @,
              !.thingino_extras_source = IF relays # <<>> THEN "onvif" ELSE @,
              !.thingino_extras_endpoint = x.configured,
              !.candidate = IF x.configured # "none" THEN 0 ELSE 1]

\* The exceptions _async_discover_onvif_relays turns into an empty list.
RelayProbeCaught(exc) == exc \in GET_CAPABILITIES_EXCEPTIONS \cup {"xml"}

\* The extras fields when a call of the discovery pass returned.
ExtrasAfterOk(c) ==
    IF c.kind = "extras" /\ c.stage = "relay_outputs"
    THEN ProbeReturned(extras, OnvifRelays(extras.outputs))
    ELSE extras

\* The extras fields when a call of the discovery pass raised exc.
ExtrasAfterRaise(c, exc) ==
    IF c.kind = "extras" /\ c.stage \in {"deviceio", "relay_outputs"}
         /\ RelayProbeCaught(exc)
    THEN ProbeReturned(extras, <<>>)
    ELSE extras

ContinuousSleepNone(c) == 0

\* `await asyncio.sleep(continuous_duration)`: how long the command sleeps
\* between the ContinuousMove and the Stop.
ContinuousSleep(c) == c.duration

\* What the command does, in the same segment, when its call returned:
\* the command's next state, the call it starts (if any), the sleep it starts.
AfterOk(c, fallback) ==
    CASE c.kind = "ptz" /\ c.stage = "service" ->
           IF Rejected(profiles[c.profile], c.mode, c.preset, fallback)
           THEN [cmd |-> [Finished(c, "returned", "none") EXCEPT !.rejected = TRUE],
                 call |-> <<>>, sleep |-> 0]
           ELSE [cmd |-> [c EXCEPT !.stage = "move",
                                   !.log = Append(@, SentFor(c, c.mode))],
                 call |-> <<c.mode>>, sleep |-> 0]
      [] c.kind = "ptz" /\ c.stage = "move" /\ c.mode = CONTINUOUS_MOVE ->
           [cmd |-> [c EXCEPT !.stage = "sleep"], call |-> <<>>,
            sleep |-> ContinuousSleep(c)]
      [] c.kind = "extras" /\ c.stage = "deviceio" ->
           [cmd |-> [c EXCEPT !.stage = "relay_outputs",
                              !.log = Append(@, Sent("GetRelayOutputs", "none"))],
            call |-> <<"GetRelayOutputs">>, sleep |-> 0]
      [] c.kind = "extras" /\ c.stage = "relay_outputs" ->
           [cmd |-> [c EXCEPT !.stage = "fetch"], call |-> <<>>, sleep |-> 0]
      [] OTHER ->
           [cmd |-> Finished(c, "returned", "none"), call |-> <<>>, sleep |-> 0]

\* What the command does when its call raised exc: the except clauses of
\* async_perform_ptz; a direct caller of the primitive sees the exception.
AfterRaise(c, exc) ==
    CASE c.kind = "ptz" /\ c.stage = "service" /\ exc \in GET_CAPABILITIES_EXCEPTIONS ->
           [Finished(c, "returned", "none") EXCEPT !.clean = FALSE]
      [] c.kind = "ptz" /\ c.stage \in {"move", "stop"} /\ exc = "onvif" ->
           [Finished(c, "returned", "none") EXCEPT !.clean = FALSE]
      [] c.kind = "extras" /\ c.stage \in {"deviceio", "relay_outputs"}
            /\ RelayProbeCaught(exc) ->
           [c EXCEPT !.stage = "fetch", !.clean = FALSE]
      [] OTHER -> [Finished(c, "raised", exc) EXCEPT !.clean = FALSE]

\* Some other task is inside a reset while task t dispatches a call.
DispatchOverlaps(t) == \E u \in Tasks \ {t} : InReset(u)

\* ------------------------------------------------------------------- Init
InitTransport ==
    /\ device = 0 /\ onvif_session = 0
    /\ clientOpen = {0} /\ sessionOpen = {0} /\ resolved = {0}
    /\ nextId = 1
    /\ onvif_retry_count = 0 /\ onvif_reset_count = 0

InitTasks ==
    /\ cmd = [t \in Tasks |-> IdleCmd]
    /\ stack = [t \in Tasks |-> <<>>]
    /\ lastCall = [t \in Tasks |-> NoCall]
    /\ timer = [t \in Tasks |-> 0]
    /\ overlap = FALSE

\* The session after async_setup: tolerant mode implies the PTZ capability
\* (async_get_capabilities sets both from the same probe).
InitSetup ==
    /\ capabilities_ptz \in BOOLEAN
    /\ ptz_fallback \in BOOLEAN
    /\ ptz_fallback => capabilities_ptz
    /\ profiles = SetupProfiles(capabilities_ptz)

NoMapping == [pc |-> "off"]

\* One caller at a time (a test harness, one automation).
Init ==
    /\ InitTransport /\ InitTasks /\ InitSetup
    /\ active = {"t1"}
    /\ failuresLeft = MaxFailures
    /\ commandsLeft = MaxCommands
    /\ mp = NoMapping
    /\ extras = NoExtras

\* One caller issuing PTZ commands.
InitPtz ==
    /\ InitTransport /\ InitTasks /\ InitSetup
    /\ active = {"t1"}
    /\ failuresLeft = MaxFailures
    /\ commandsLeft = MaxPtzCommands
    /\ mp = NoMapping
    /\ extras = NoExtras

\* Two callers issuing commands concurrently on the one session.
InitConcurrent ==
    /\ InitTransport /\ InitTasks /\ InitSetup
    /\ active = Tasks
    /\ failuresLeft = MaxFailures
    /\ commandsLeft = MaxCommands
    /\ mp = NoMapping
    /\ extras = NoExtras

\* ------------------------------------------------ Part 1: the call primitive
\* A caller (not a PTZ command) puts one operation of the current client
\* through _async_onvif_call.
StartCall(t) ==
    /\ t \in active /\ commandsLeft > 0
    /\ cmd[t].stage \in {"idle", "done"} /\ stack[t] = <<>>
    /\ cmd' = [cmd EXCEPT ![t] = [IdleCmd EXCEPT !.kind = "call", !.stage = "op",
                                                 !.log = <<Sent("op", "none")>>]]
    /\ stack' = [stack EXCEPT ![t] =
                   <<NewFrame("op", device, onvif_reset_count, onvif_retry_count,
                              device, onvif_session, clientOpen, sessionOpen)>>]
    /\ commandsLeft' = commandsLeft - 1
    /\ overlap' = (overlap \/ DispatchOverlaps(t))
    /\ UNCHANGED <<transportVars, setupVars, lastCall, timer, failuresLeft, mp, extras>>

\* `return await func(*args, **kwargs)`: the awaited operation returns.
\* An inner call (update_xaddrs of a reset) returns into the reset, which
\* returns into the retry loop's back-off sleep; an outermost call returns to
\* the command, which runs on to its next await.
InvokeOk(t) ==
    /\ stack[t] # <<>> /\ Top(stack[t]).phase = "inflight"
    /\ LET f == Top(stack[t]) IN
       IF Len(stack[t]) > 1
       THEN LET parent == stack[t][Len(stack[t]) - 1] IN
            /\ resolved' = resolved \cup {f.target}
            /\ stack' = [stack EXCEPT ![t] =
                  SetTop(Pop(stack[t]),
                         [parent EXCEPT !.phase = "backoff",
                             !.resolveTries = f.invocations,
                             !.trace = Append(@, [ev |-> "resolve", id |-> f.target])])]
            /\ timer' = [timer EXCEPT ![t] = Backoff(parent.attempt)]
            /\ UNCHANGED <<cmd, lastCall, overlap, extras>>
       ELSE LET nxt == AfterOk(cmd[t], ptz_fallback) IN
            /\ lastCall' = [lastCall EXCEPT ![t] =
                  Summary(f, "ok", "none", lastCall[t], onvif_reset_count,
                          onvif_retry_count, device, onvif_session, clientOpen,
                          sessionOpen)]
            /\ cmd' = [cmd EXCEPT ![t] = nxt.cmd]
            /\ stack' = [stack EXCEPT ![t] =
                  IF nxt.call = <<>> THEN <<>>
                  ELSE <<NewFrame(nxt.call[1], CHOOSE c \in cmd[t].service : TRUE,
                                  onvif_reset_count, onvif_retry_count, device,
                                  onvif_session, clientOpen, sessionOpen)>>]
            /\ timer' = [timer EXCEPT ![t] = nxt.sleep]
            /\ overlap' = (overlap \/ (nxt.call # <<>> /\ DispatchOverlaps(t)))
            /\ extras' = ExtrasAfterOk(cmd[t])
            /\ UNCHANGED resolved
    /\ UNCHANGED <<device, onvif_session, clientOpen, sessionOpen, nextId,
                   onvif_retry_count, onvif_reset_count, setupVars, failuresLeft,
                   commandsLeft, mp>>

\* An exception leaves _async_onvif_call: it passes through every enclosing
\* reset and retry loop of the task (each is inside an except clause that does
\* not catch it) and reaches the command.
Unwind(t, exc, rty) ==
    /\ lastCall' = [lastCall EXCEPT ![t] =
          Summary(stack[t][1], exc, IF Len(stack[t]) = 1 THEN "op" ELSE "reset",
                  lastCall[t], onvif_reset_count, rty, device, onvif_session,
                  clientOpen, sessionOpen)]
    /\ cmd' = [cmd EXCEPT ![t] = AfterRaise(cmd[t], exc)]
    /\ stack' = [stack EXCEPT ![t] = <<>>]
    /\ timer' = [timer EXCEPT ![t] = 0]
    /\ extras' = ExtrasAfterRaise(cmd[t], exc)

\* The operation raises an exception the retry loop does not catch.
InvokeRaise(t, exc) ==
    /\ stack[t] # <<>> /\ Top(stack[t]).phase = "inflight"
    /\ failuresLeft > 0
    /\ ~IsRetryable(exc)
    /\ Unwind(t, exc, onvif_retry_count)
    /\ failuresLeft' = failuresLeft - 1
    /\ UNCHANGED <<transportVars, setupVars, commandsLeft, overlap, mp>>

\* The operation raises ServerDisconnectedError on the last attempt:
\* `self.onvif_retry_count += 1` and `raise`.
InvokeExhausted(t, exc) ==
    /\ stack[t] # <<>> /\ Top(stack[t]).phase = "inflight"
    /\ failuresLeft > 0
    /\ IsRetryable(exc)
    /\ RetriesExhausted(Top(stack[t]).attempt, DefaultRetries)
    /\ onvif_retry_count' = onvif_retry_count + 1
    /\ Unwind(t, exc, onvif_retry_count + 1)
    /\ failuresLeft' = failuresLeft - 1
    /\ UNCHANGED <<device, onvif_session, clientOpen, sessionOpen, resolved, nextId,
                   onvif_reset_count, setupVars, commandsLeft, overlap, mp>>

\* The operation raises ServerDisconnectedError on an earlier attempt: the
\* retry counter is incremented and _async_reset_onvif_client starts: it
\* increments the reset counter and awaits self.device.close().
InvokeRetry(t, exc) ==
    /\ stack[t] # <<>> /\ Top(stack[t]).phase = "inflight"
    /\ failuresLeft > 0
    /\ IsRetryable(exc)
    /\ ~RetriesExhausted(Top(stack[t]).attempt, DefaultRetries)
    /\ onvif_retry_count' = onvif_retry_count + 1
    /\ onvif_reset_count' = BumpReset(onvif_reset_count)
    /\ stack' = [stack EXCEPT ![t] = SetTop(stack[t],
          [Top(stack[t]) EXCEPT
              !.first = IF @ = "none" THEN exc ELSE @,
              !.disconnects = @ + 1,
              !.phase = "closing_client",
              !.old = {device}, !.oldSession = {onvif_session}, !.created = {},
              !.closeRaised = FALSE, !.resolveTries = 0,
              !.trace = << [ev |-> "count", id |-> BumpReset(onvif_reset_count)],
                           [ev |-> "close_client", id |-> device] >>])]
    /\ cmd' = [cmd EXCEPT ![t].clean = FALSE]
    /\ failuresLeft' = failuresLeft - 1
    /\ UNCHANGED <<device, onvif_session, clientOpen, sessionOpen, resolved, nextId,
                   setupVars, lastCall, timer, commandsLeft, overlap, mp, extras>>

\* `self._onvif_session = None`, `self.device = await
\* self._async_create_onvif_client()` (a new aiohttp session, a new client on
\* it; nothing in it suspends), then `await self._async_onvif_call(
\* "update_xaddrs", self.device.update_xaddrs)` up to its first await.
\* copen and sopen are the open clients and sessions when the segment starts.
Recreate(t, copen, sopen, raised) ==
    LET n == nextId
        f == Top(stack[t])
        g == [f EXCEPT !.phase = "resolving", !.created = {n},
                       !.closeRaised = raised,
                       !.trace = Append(@, [ev |-> "create", id |-> n])]
    IN  /\ onvif_session' = n
        /\ device' = n
        /\ sessionOpen' = sopen \cup {n}
        /\ clientOpen' = copen \cup {n}
        /\ nextId' = n + 1
        /\ stack' = [stack EXCEPT ![t] =
              Append(SetTop(stack[t], g),
                     NewFrame("update_xaddrs", XaddrsTarget(n, device),
                              onvif_reset_count, onvif_retry_count, n, n,
                              copen \cup {n}, sopen \cup {n}))]
        /\ cmd' = [cmd EXCEPT ![t].log = Append(@, Sent("update_xaddrs", "none"))]
        /\ overlap' = (overlap \/ DispatchOverlaps(t))

\* `await self.device.close()` is over: it returned (the old client is
\* closed) or raised (the error is logged and swallowed).  Then, `if
\* self._onvif_session and not self._onvif_session.closed`, the session's
\* close() is awaited; else the reset runs on to the new client.
CloseClientDone(t, raised) ==
    /\ stack[t] # <<>> /\ Top(stack[t]).phase = "closing_client"
    /\ raised => failuresLeft > 0
    /\ failuresLeft' = IF raised THEN failuresLeft - 1 ELSE failuresLeft
    /\ LET copen == IF raised THEN clientOpen ELSE clientOpen \ Top(stack[t]).old IN
       IF onvif_session \in sessionOpen
       THEN /\ clientOpen' = copen
            /\ sessionOpen' = sessionOpen \ {onvif_session}
            /\ stack' = [stack EXCEPT ![t] = SetTop(stack[t],
                  [Top(stack[t]) EXCEPT !.phase = "closing_session",
                      !.closeRaised = raised,
                      !.trace = Append(@, [ev |-> "close_session",
                                           id |-> onvif_session])])]
            /\ UNCHANGED <<device, onvif_session, nextId, cmd, overlap>>
       ELSE Recreate(t, copen, sessionOpen, raised)
    /\ UNCHANGED <<resolved, onvif_retry_count, onvif_reset_count, setupVars,
                   lastCall, timer, commandsLeft, mp, extras>>

\* `await self._onvif_session.close()` is over.
CloseSessionDone(t) ==
    /\ stack[t] # <<>> /\ Top(stack[t]).phase = "closing_session"
    /\ Recreate(t, clientOpen, sessionOpen, Top(stack[t]).closeRaised)
    /\ UNCHANGED <<resolved, onvif_retry_count, onvif_reset_count, setupVars,
                   lastCall, timer, failuresLeft, commandsLeft, mp, extras>>

\* `await asyncio.sleep(0.2 * (attempt + 1))` is over: the for loop's next
\* attempt awaits the same func again.
BackoffDone(t) ==
    /\ stack[t] # <<>> /\ Top(stack[t]).phase = "backoff"
    /\ timer[t] = 0
    /\ stack' = [stack EXCEPT ![t] = SetTop(stack[t],
          [Top(stack[t]) EXCEPT !.phase = "inflight", !.attempt = @ + 1,
                                !.invocations = @ + 1])]
    /\ cmd' = [cmd EXCEPT ![t].log = Append(@, SentFor(cmd[t], Top(stack[t]).label))]
    /\ overlap' = (overlap \/ DispatchOverlaps(t))
    /\ UNCHANGED <<transportVars, setupVars, lastCall, timer, failuresLeft,
                   commandsLeft, mp, extras>>

\* ------------------------------------------------ Part 2: async_perform_ptz
\* The command up to its first await: without the PTZ capability it returns
\* at once; else it awaits create_ptz_service through the call primitive.
PerformPtz(t, profile, mode, duration, preset) ==
    /\ t \in active /\ commandsLeft > 0
    /\ cmd[t].stage \in {"idle", "done"} /\ stack[t] = <<>>
    /\ (mode # CONTINUOUS_MOVE) => duration = 0
    /\ (mode # GOTOPRESET_MOVE) => preset = "1"
    /\ LET c == [IdleCmd EXCEPT !.kind = "ptz", !.mode = mode, !.profile = profile,
                                !.preset = preset, !.duration = duration] IN
       IF ~capabilities_ptz
       THEN /\ cmd' = [cmd EXCEPT ![t] = Finished(c, "returned", "none")]
            /\ UNCHANGED <<stack, overlap>>
       ELSE /\ cmd' = [cmd EXCEPT ![t] =
                  [c EXCEPT !.stage = "service", !.service = {device},
                            !.log = <<Sent("create_ptz_service", "none")>>]]
            /\ stack' = [stack EXCEPT ![t] =
                  <<NewFrame("create_ptz_service", device, onvif_reset_count,
                             onvif_retry_count, device, onvif_session, clientOpen,
                             sessionOpen)>>]
            /\ overlap' = (overlap \/ DispatchOverlaps(t))
    /\ commandsLeft' = commandsLeft - 1
    /\ UNCHANGED <<transportVars, setupVars, lastCall, timer, failuresLeft, mp, extras>>

\* `await asyncio.sleep(continuous_duration)` is over: the command builds the
\* Stop request for the same profile and awaits it through the primitive.
PtzSleepDone(t) ==
    /\ cmd[t].stage = "sleep" /\ stack[t] = <<>>
    /\ timer[t] = 0
    /\ cmd' = [cmd EXCEPT ![t] =
          [cmd[t] EXCEPT !.stage = "stop", !.gap = cmd[t].since,
                         !.log = Append(@, Sent("Stop", cmd[t].profile))]]
    /\ stack' = [stack EXCEPT ![t] =
          <<NewFrame("Stop", CHOOSE c \in cmd[t].service : TRUE, onvif_reset_count,
                     onvif_retry_count, device, onvif_session, clientOpen,
                     sessionOpen)>>]
    /\ overlap' = (overlap \/ DispatchOverlaps(t))
    /\ UNCHANGED <<transportVars, setupVars, lastCall, timer, failuresLeft,
                   commandsLeft, mp, extras>>

\* One unit of time passes: every running sleep gets shorter, and every
\* continuous move that is under way gets older (counted up to MaxDuration).
Moving(c) ==
    /\ c.kind = "ptz" /\ c.mode = CONTINUOUS_MOVE
    /\ c.stage \in {"move", "sleep"}
Tick ==
    /\ \E t \in Tasks : timer[t] > 0 \/ (Moving(cmd[t]) /\ cmd[t].since < MaxDuration)
    /\ timer' = [t \in Tasks |-> IF timer[t] > 0 THEN timer[t] - 1 ELSE 0]
    /\ cmd' = [t \in Tasks |->
                 IF Moving(cmd[t]) /\ cmd[t].since < MaxDuration
                 THEN [cmd[t] EXCEPT !.since = @ + 1] ELSE cmd[t]]
    /\ UNCHANGED <<transportVars, setupVars, stack, lastCall, failuresLeft,
                   commandsLeft, overlap, mp, extras>>

Failures == {"disconnect"} \cup NonRetryable

\* What the transport does, whoever started the call.
TransportStep ==
    \/ \E t \in Tasks : InvokeOk(t)
    \/ \E t \in Tasks, e \in Failures : InvokeRaise(t, e)
    \/ \E t \in Tasks, e \in Failures : InvokeExhausted(t, e)
    \/ \E t \in Tasks, e \in Failures : InvokeRetry(t, e)
    \/ \E t \in Tasks, r \in BOOLEAN : CloseClientDone(t, r)
    \/ \E t \in Tasks : CloseSessionDone(t)
    \/ \E t \in Tasks : BackoffDone(t)
    \/ Tick

\* Callers of the call primitive.
Next ==
    \/ \E t \in Tasks : StartCall(t)
    \/ TransportStep

\* Callers of async_perform_ptz.
NextPtz ==
    \/ \E t \in Tasks, p \in ProfileTokens, m \in MoveModes, d \in 0..MaxDuration,
          ps \in Presets : PerformPtz(t, p, m, d, ps)
    \/ \E t \in Tasks : PtzSleepDone(t)
    \/ TransportStep

\* The call primitive under one caller.
Spec == Init /\ [][Next]_vars

\* The call primitive under two concurrent callers.
SpecConcurrent == InitConcurrent /\ [][Next]_vars

\* PTZ commands, one at a time, on top of the call primitive.
SpecPtz == InitPtz /\ [][NextPtz]_vars

\* ===================================================== properties of the transport
Calls == {lastCall[t] : t \in Tasks}
Frames == UNION {{stack[t][i] : i \in 1..Len(stack[t])} : t \in Tasks}

\* C1: a call whose first invocation fails with a disconnect, whose reset
\* re-resolves the address table at the first request, and whose second
\* invocation succeeds returns the second invocation's result, and the reset
\* counter is exactly one higher than when the call started.
C1_RetryOnceResetsOnce ==
    \A c \in Calls :
        (c.first = "disconnect" /\ c.invocations = 2 /\ c.resolveTries = 1
            /\ c.outcome \notin {"none", "disconnect"} /\ c.raisedBy # "op")
        => (c.outcome = "ok" /\ c.result = 2 /\ c.resetDelta = 1)

C1_Witness ==
    \E c \in Calls :
        c.first = "disconnect" /\ c.invocations = 2 /\ c.resolveTries = 1
        /\ c.outcome = "ok"

\* C2: a call whose operation fails with a disconnect on each of the N+1
\* attempts raises that disconnect to its caller and leaves a live client on a
\* live pooled connection; a later call whose operation succeeds at once
\* returns its result.
C2_ExhaustedStaysUsable ==
    \A c \in Calls :
        /\ (c.outcome # "none" /\ c.disconnects = DefaultRetries + 1)
           => (c.outcome = "disconnect" /\ c.raisedBy = "op"
               /\ c.invocations = DefaultRetries + 1
               /\ c.clientLive /\ c.sessionLive)
        /\ (c.afterExhausted /\ c.first = "ok")
           => (c.outcome = "ok" /\ c.result = 1 /\ c.invocations = 1)

C2_Witness ==
    \E c \in Calls :
        c.afterExhausted /\ c.outcome = "ok" /\ c.clientLive /\ c.sessionLive

\* C3: every call invokes its operation at most N+1 times and resets the
\* client at most N times, whatever fails.
C3_BoundedResets ==
    \A t \in Tasks :
        stack[t] # <<>> =>
            /\ stack[t][1].invocations <= DefaultRetries + 1
            /\ onvif_reset_count - stack[t][1].startReset <= DefaultRetries

\* C4: a call whose first invocation fails with anything but a disconnect
\* raises that failure after this one invocation; the reset and retry
\* counters, the client and the pooled connection are as they were.
C4_OtherFailuresPropagate ==
    \A c \in Calls :
        c.first \in NonRetryable
        => (c.outcome = c.first /\ c.raisedBy = "op" /\ c.invocations = 1
            /\ c.resetDelta = 0 /\ c.retryDelta = 0
            /\ c.sameClient /\ c.sameSession /\ c.sameOpen)

C4_Witness ==
    \E c \in Calls : c.first = "fault" /\ c.outcome = "fault"

\* C5: a call whose first invocation times out resets the client and invokes
\* the operation again, as after a disconnect.
C5_TimeoutRetried ==
    \A c \in Calls :
        c.first = "timeout" => (c.resetDelta >= 1 /\ c.invocations >= 2)

\* C6: while one task's reset is in progress no other task dispatches a call
\* and no second reset is in progress.
C6_ResetSerialized ==
    /\ ~overlap
    /\ \A t, u \in Tasks : (t # u /\ InReset(t)) => ~InReset(u)

\* C7: when attempt k+1 of a call is invoked, the call has, since attempt k
\* failed and in this order: incremented the reset counter, closed the client
\* that was current and then its pooled connection, created a new client on a
\* new pooled connection, and re-resolved the address table on that client.
ResetInOrder(f) ==
    /\ [i \in 1..Len(f.trace) |-> f.trace[i].ev]
         = <<"count", "close_client", "close_session", "create", "resolve">>
    /\ f.trace[1].id >= f.startReset + f.attempt
    /\ f.trace[2].id \in f.old
    /\ f.trace[3].id \in f.oldSession
    /\ f.trace[3].id \notin sessionOpen
    /\ (~f.closeRaised) => f.trace[2].id \notin clientOpen
    /\ f.trace[4].id \notin (f.old \cup f.oldSession)
    /\ f.created = {f.trace[4].id}
    /\ f.trace[5].id = f.trace[4].id
    /\ f.trace[5].id \in resolved

C7_ResetStepsInOrder ==
    \A f \in Frames : (f.phase = "inflight" /\ f.attempt >= 1) => ResetInOrder(f)

C7_Witness ==
    \E f \in Frames : f.phase = "inflight" /\ f.attempt >= 1 /\ f.label = "op"

\* ==================================================== properties of PTZ commands
PtzCmds == {cmd[t] : t \in Tasks}
MoveCalls(c) == {i \in 1..Len(c.log) : c.log[i].op \in MoveModes}

\* C8: a Continuous move command with duration d that the session accepts
\* (PTZ capability present, request not rejected) and that meets no failure
\* sends exactly one ContinuousMove and then exactly one Stop, both for the
\* command's profile; the Stop is sent no earlier than d after the move; and
\* the command has not returned while the Stop is still to be sent.
C8_ContinuousMoveThenStop ==
    \A c \in PtzCmds :
        (c.kind = "ptz" /\ c.mode = CONTINUOUS_MOVE /\ c.clean
            /\ capabilities_ptz /\ ~c.rejected)
        => /\ c.stage = "done" =>
                /\ c.status = "returned"
                /\ c.log = << Sent("create_ptz_service", "none"),
                              Sent(CONTINUOUS_MOVE, c.profile),
                              Sent(STOP_MOVE, c.profile) >>
                /\ c.gap >= c.duration
           /\ c.stage = "stop" => c.gap >= c.duration
           /\ c.stage \in {"move", "sleep"} =>
                c.log = << Sent("create_ptz_service", "none"),
                           Sent(CONTINUOUS_MOVE, c.profile) >>

C8_Witness ==
    \E c \in PtzCmds :
        /\ c.kind = "ptz" /\ c.mode = CONTINUOUS_MOVE /\ c.clean /\ ~c.rejected
        /\ c.stage = "done" /\ c.duration = MaxDuration /\ Len(c.log) = 3

\* C9: a Continuous, Relative or Absolute command on a profile whose PTZ
\* configuration declares that sub-mode unsupported: with tolerant mode off
\* it sends no move (and no stop) to the device and, once the PTZ service was
\* obtained, returns normally; with tolerant mode on, once the PTZ service
\* was obtained, the move has been sent for the command's profile.
C9_UnsupportedSubMode ==
    \A c \in PtzCmds :
        (c.kind = "ptz" /\ c.mode \in {CONTINUOUS_MOVE, RELATIVE_MOVE, ABSOLUTE_MOVE}
            /\ Unsupported(profiles[c.profile], c.mode))
        => /\ ~ptz_fallback =>
                /\ MoveCalls(c) = {}
                /\ c.stage \in {"idle", "service", "done"}
                /\ (c.stage = "done" /\ c.clean) => (c.status = "returned" /\ c.rejected)
           /\ ptz_fallback =>
                /\ ~c.rejected
                /\ (c.stage \in {"move", "sleep", "stop"} \/ (c.stage = "done" /\ c.clean))
                     => \E i \in MoveCalls(c) : c.log[i] = Sent(c.mode, c.profile)

C9_Witness ==
    \E c \in PtzCmds :
        /\ c.kind = "ptz" /\ c.mode = ABSOLUTE_MOVE
        /\ Unsupported(profiles[c.profile], c.mode)
        /\ ~ptz_fallback /\ c.stage = "done" /\ c.rejected /\ c.status = "returned"

\* The tolerant half of C9 happens too: an unsupported sub-mode, tolerant
\* mode on, the move in flight.
C9_TolerantWitness ==
    \E c \in PtzCmds :
        /\ c.kind = "ptz" /\ c.mode = RELATIVE_MOVE
        /\ Unsupported(profiles[c.profile], c.mode)
        /\ ptz_fallback /\ c.stage = "move"

\* ============================================ Part 3: the Thingino PTZ mapper
\* Move values are floats; the model computes with exact fractions whose
\* denominator is Scale, a power of two, so that every value and every
\* intermediate result below is a float the program computes exactly.  A
\* value is written as its numerator over Scale.  Axis limits are whole step
\* counts, or absent (None).
\* Inputs are a grid of 1/Scale over [-1, 1] and half steps up to MaxHalfSteps/2.
GridBits == 3
MaxStep == 3
MaxHalfSteps == 6

Scale == 2 ^ GridBits

NoLimit == [known |-> FALSE, val |-> 0]
Limit(n) == [known |-> TRUE, val |-> n]
AxisLimits == {NoLimit} \cup {Limit(n) : n \in -MaxStep..MaxStep}
MoveValues ==
    (-Scale..Scale) \cup {k * (Scale \div 2) : k \in -MaxHalfSteps..MaxHalfSteps}

Abs(n) == IF n < 0 THEN -n ELSE n
Max2(a, b) == IF a >= b THEN a ELSE b
Min2(a, b) == IF a <= b THEN a ELSE b

\* Python's round(): the nearest integer to num/den, a tie going to the even
\* one.
RoundHalfEven(num, den) ==
    LET q == num \div den
        r == num - q * den
    IN  IF 2 * r < den THEN q
        ELSE IF 2 * r > den THEN q + 1
        ELSE IF q % 2 = 0 THEN q ELSE q + 1

\* max(abs(min_val), abs(max_val), abs(max_val - min_val)), or None.
ptz_max_step(min_val, max_val) ==
    IF ~min_val.known \/ ~max_val.known THEN NoLimit
    ELSE Limit(Max2(Max2(Abs(min_val.val), Abs(max_val.val)),
                    Abs(max_val.val - min_val.val)))

ptz_clamp_none(value, min_val, max_val) == value

ptz_clamp(value, min_val, max_val) ==
    LET lower == IF min_val.known THEN Max2(value, min_val.val * Scale) ELSE value
    IN  IF max_val.known THEN Min2(lower, max_val.val * Scale) ELSE lower

\* -1.001 <= value <= 1.001
ptz_is_normalized(value) ==
    /\ -1001 * Scale <= 1000 * value
    /\ 1000 * value <= 1001 * Scale

\* The unit-interval value, as a numerator over 2 * Scale: value itself when
\* min_val >= 0 and 0 <= value <= 1, else (value + 1) / 2.
ptz_normalize_to_unit(value, min_val) ==
    IF min_val.known /\ min_val.val >= 0 /\ 0 <= value /\ value <= Scale
    THEN 2 * value
    ELSE value + Scale

MinimumStepNone(steps, value) == steps

\* `if steps == 0 and value != 0: steps = 1 if value > 0 else -1`
MinimumStep(steps, value) ==
    IF steps = 0 /\ value # 0
    THEN (IF value > 0 THEN 1 ELSE -1)
    ELSE steps

ptz_map_relative_unmapped(value, min_val, max_val) == value

ptz_map_relative(value, min_val, max_val) ==
    LET max_step == ptz_max_step(min_val, max_val)
        rounded == IF ptz_is_normalized(value)
                   THEN RoundHalfEven(value * max_step.val, Scale)
                   ELSE RoundHalfEven(value, Scale)
        steps == MinimumStep(rounded, value)
    IN  IF ~max_step.known THEN value
        ELSE Max2(-max_step.val, Min2(max_step.val, steps)) * Scale

ptz_map_absolute(value, min_val, max_val) ==
    LET unit == ptz_normalize_to_unit(value, min_val)
        steps == IF ptz_is_normalized(value)
                 THEN RoundHalfEven(min_val.val * 2 * Scale
                                      + unit * (max_val.val - min_val.val),
                                    2 * Scale)
                 ELSE RoundHalfEven(value, Scale)
    IN  IF ~min_val.known \/ ~max_val.known THEN value
        ELSE ptz_clamp(steps * Scale, min_val, max_val)

\* One axis of a Thingino-mode profile (limits as the device reported them,
\* the lower one not above the upper one) and two move values, v1 below v2.
InitMap ==
    /\ InitTransport /\ InitTasks
    /\ capabilities_ptz = TRUE /\ ptz_fallback = FALSE
    /\ profiles = SetupProfiles(TRUE)
    /\ active = {}
    /\ failuresLeft = 0
    /\ commandsLeft = 0
    /\ extras = NoExtras
    /\ \E lo \in AxisLimits, hi \in AxisLimits, v1 \in MoveValues, v2 \in MoveValues :
          /\ (lo.known /\ hi.known) => lo.val <= hi.val
          /\ v1 < v2
          /\ mp = [pc |-> "ready", min_val |-> lo, max_val |-> hi,
                   v1 |-> v1, v2 |-> v2, m1 |-> 0, m2 |-> 0]

\* An AbsoluteMove in Thingino mode maps the axis value.
MapAbsolute ==
    /\ mp.pc = "ready"
    /\ mp' = [mp EXCEPT !.pc = "absolute",
                        !.m1 = ptz_map_absolute(mp.v1, mp.min_val, mp.max_val),
                        !.m2 = ptz_map_absolute(mp.v2, mp.min_val, mp.max_val)]
    /\ UNCHANGED <<transportVars, setupVars, taskVars, failuresLeft, commandsLeft,
                   overlap, extras>>

\* A RelativeMove in Thingino mode maps the axis value.
MapRelative ==
    /\ mp.pc = "ready"
    /\ mp' = [mp EXCEPT !.pc = "relative",
                        !.m1 = ptz_map_relative(mp.v1, mp.min_val, mp.max_val),
                        !.m2 = ptz_map_relative(mp.v2, mp.min_val, mp.max_val)]
    /\ UNCHANGED <<transportVars, setupVars, taskVars, failuresLeft, commandsLeft,
                   overlap, extras>>

NextMap == MapAbsolute \/ MapRelative

\* The mapper applied to every axis and value pair of the grid.
SpecMap == InitMap /\ [][NextMap]_vars

\* ======================================================= properties of the mapper
\* C10: for every axis range [min, max] with min >= 0 and all normalized
\* values v1 < v2 in [-1, 1], the absolute mapping is monotonic:
\* mapped(v1) <= mapped(v2).
C10_AbsoluteMonotonic ==
    (mp.pc = "absolute" /\ mp.min_val.known /\ mp.max_val.known
        /\ mp.min_val.val >= 0 /\ -Scale <= mp.v1 /\ mp.v2 <= Scale)
    => mp.m1 <= mp.m2


\* C11: for every axis range [min, max] with both bounds known and every
\* input value, normalized or step-valued, the absolute mapping's result lies
\* within [min, max].
C11_AbsoluteWithinRange ==
    (mp.pc = "absolute" /\ mp.min_val.known /\ mp.max_val.known)
    => /\ mp.min_val.val * Scale <= mp.m1 /\ mp.m1 <= mp.max_val.val * Scale
       /\ mp.min_val.val * Scale <= mp.m2 /\ mp.m2 <= mp.max_val.val * Scale

\* A step-valued input beyond the range's maximum and a normalized input are
\* both mapped, the first one clamped to the maximum.
C11_Witness ==
    /\ mp.pc = "absolute" /\ mp.min_val.known /\ mp.max_val.known
    /\ ptz_is_normalized(mp.v1) /\ ~ptz_is_normalized(mp.v2)
    /\ RoundHalfEven(mp.v2, Scale) > mp.max_val.val
    /\ mp.m2 = mp.max_val.val * Scale

Sign(n) == IF n > 0 THEN 1 ELSE IF n < 0 THEN -1 ELSE 0

\* C12: for every nonzero input v and every axis range whose maximum step
\* size is known and nonzero, the relative mapping's result is never 0 and
\* has the sign of v.
C12_RelativeNeverZero ==
    (mp.pc = "relative" /\ ptz_max_step(mp.min_val, mp.max_val).known
        /\ ptz_max_step(mp.min_val, mp.max_val).val # 0)
    => /\ mp.v1 # 0 => (mp.m1 # 0 /\ Sign(mp.m1) = Sign(mp.v1))
       /\ mp.v2 # 0 => (mp.m2 # 0 /\ Sign(mp.m2) = Sign(mp.v2))

\* A nonzero normalized input whose product with the maximum step rounds to
\* 0 is mapped to one step.
C12_Witness ==
    /\ mp.pc = "relative" /\ ptz_max_step(mp.min_val, mp.max_val).known
    /\ ptz_max_step(mp.min_val, mp.max_val).val # 0
    /\ mp.v1 < 0 /\ ptz_is_normalized(mp.v1)
    /\ RoundHalfEven(mp.v1 * ptz_max_step(mp.min_val, mp.max_val).val, Scale) = 0
    /\ mp.m1 = -Scale


\* ================================= Part 4: the Relative / Absolute request
\* What async_perform_ptz puts into the RelativeMove or AbsoluteMove request
\* it sends: the translation (or position) on the pan and tilt axes and the
\* zoom component, if any.

\* PAN_FACTOR.get(pan, 0), TILT_FACTOR.get(tilt, 0), ZOOM_FACTOR.get(zoom, 0)
PAN_FACTOR(pan) == CASE pan = "RIGHT" -> 1 [] pan = "LEFT" -> -1 [] OTHER -> 0
TILT_FACTOR(tilt) == CASE tilt = "UP" -> 1 [] tilt = "DOWN" -> -1 [] OTHER -> 0
ZOOM_FACTOR(zoom) == CASE zoom = "ZOOM_IN" -> 1 [] zoom = "ZOOM_OUT" -> -1 [] OTHER -> 0

PanDirections == {"none", "LEFT", "RIGHT"}
TiltDirections == {"none", "UP", "DOWN"}
ZoomDirections == {"none", "ZOOM_IN", "ZOOM_OUT"}

\* profile.ptz_limits: None, or the limits the device reported per axis.
NoPTZLimits ==
    [present |-> FALSE, pan_min |-> NoLimit, pan_max |-> NoLimit,
     tilt_min |-> NoLimit, tilt_max |-> NoLimit, zoom_max |-> NoLimit]
PTZLimits(pan, tilt, zoom_max) ==
    [present |-> TRUE, pan_min |-> pan[1], pan_max |-> pan[2],
     tilt_min |-> tilt[1], tilt_max |-> tilt[2], zoom_max |-> zoom_max]

PanRanges ==
    { <<NoLimit, NoLimit>>, <<Limit(0), Limit(MaxStep)>>,
      <<Limit(-MaxStep), Limit(MaxStep)>>, <<Limit(0), Limit(100)>> }
TiltRanges == { <<NoLimit, NoLimit>>, <<Limit(0), Limit(MaxStep)>> }
ZoomMaxima == {NoLimit, Limit(0), Limit(1)}
ProfileLimits ==
    {NoPTZLimits} \cup
    {PTZLimits(p, t, z) : p \in PanRanges, t \in TiltRanges, z \in ZoomMaxima}
Distances == {v \in MoveValues : v >= 0}

\* `self.thingino_ptz_mode and limits is not None`
ThinginoMode(r) == r.thingino_ptz_mode /\ r.limits.present

DropZoomNever(zoom, zoom_max) == FALSE

\* `if zoom is not None and limits.zoom_max in (0, 0.0)`
DropZoom(zoom, zoom_max) == zoom # "none" /\ zoom_max.known /\ zoom_max.val = 0

\* The request's zoom component: `if zoom is not None: ...["Zoom"] = {"x": zoom_val}`
ZoomPart(r, dropped) ==
    IF r.zoom = "none" \/ dropped
    THEN [has_zoom |-> FALSE, zoom_x |-> 0]
    ELSE [has_zoom |-> TRUE, zoom_x |-> r.distance * ZOOM_FACTOR(r.zoom)]

\* req.Translation of a RelativeMove.
RelativeTranslation(r) ==
    LET pan_val == r.distance * PAN_FACTOR(r.pan)
        tilt_val == r.distance * TILT_FACTOR(r.tilt)
        l == r.limits
        z == ZoomPart(r, ThinginoMode(r) /\ DropZoom(r.zoom, l.zoom_max))
    IN  IF ThinginoMode(r)
        THEN [x |-> IF r.pan # "none"
                    THEN ptz_map_relative(pan_val, l.pan_min, l.pan_max) ELSE 0,
              y |-> IF r.tilt # "none"
                    THEN ptz_map_relative(tilt_val, l.tilt_min, l.tilt_max) ELSE 0,
              has_zoom |-> z.has_zoom, zoom_x |-> z.zoom_x]
        ELSE [x |-> pan_val, y |-> tilt_val,
              has_zoom |-> z.has_zoom, zoom_x |-> z.zoom_x]

\* req.Position of an AbsoluteMove.
AbsolutePosition(r) ==
    LET pan_val == r.distance * PAN_FACTOR(r.pan)
        tilt_val == r.distance * TILT_FACTOR(r.tilt)
        l == r.limits
        z == ZoomPart(r, ThinginoMode(r) /\ DropZoom(r.zoom, l.zoom_max))
    IN  IF ThinginoMode(r)
        THEN [x |-> ptz_map_absolute(pan_val, l.pan_min, l.pan_max),
              y |-> ptz_map_absolute(tilt_val, l.tilt_min, l.tilt_max),
              has_zoom |-> z.has_zoom, zoom_x |-> z.zoom_x]
        ELSE [x |-> pan_val, y |-> tilt_val,
              has_zoom |-> z.has_zoom, zoom_x |-> z.zoom_x]

NoRequest == [x |-> 0, y |-> 0, has_zoom |-> FALSE, zoom_x |-> 0]

\* A profile with or without limits, Thingino mode on or off, and the
\* arguments of one move command.
InitRequest ==
    /\ InitTransport /\ InitTasks
    /\ capabilities_ptz = TRUE /\ ptz_fallback = FALSE
    /\ profiles = SetupProfiles(TRUE)
    /\ active = {}
    /\ failuresLeft = 0
    /\ commandsLeft = 0
    /\ extras = NoExtras
    /\ \E d \in Distances, pan \in PanDirections, tilt \in TiltDirections,
          zoom \in ZoomDirections, l \in ProfileLimits, mode \in BOOLEAN :
          mp = [pc |-> "request", distance |-> d, pan |-> pan, tilt |-> tilt,
                zoom |-> zoom, limits |-> l, thingino_ptz_mode |-> mode,
                req |-> NoRequest]

BuildRelative ==
    /\ mp.pc = "request"
    /\ mp' = [mp EXCEPT !.pc = "RelativeMove", !.req = RelativeTranslation(mp)]
    /\ UNCHANGED <<transportVars, setupVars, taskVars, failuresLeft, commandsLeft,
                   overlap, extras>>

BuildAbsolute ==
    /\ mp.pc = "request"
    /\ mp' = [mp EXCEPT !.pc = "AbsoluteMove", !.req = AbsolutePosition(mp)]
    /\ UNCHANGED <<transportVars, setupVars, taskVars, failuresLeft, commandsLeft,
                   overlap, extras>>

NextRequest == BuildRelative \/ BuildAbsolute

\* The requests built for every profile and every command of the grid.
SpecRequest == InitRequest /\ [][NextRequest]_vars

\* ====================================================== properties of requests
\* The pan step a Relative request would carry if it were round(v x M)
\* clamped to [-M, M], M = max(|min|, |max|, |max - min|), v the signed
\* pan value.
PanValue == mp.distance * PAN_FACTOR(mp.pan)
PanM ==
    Max2(Max2(Abs(mp.limits.pan_min.val), Abs(mp.limits.pan_max.val)),
         Abs(mp.limits.pan_max.val - mp.limits.pan_min.val))
PanRounded == RoundHalfEven(PanValue * PanM, Scale)
RelativePanCase ==
    /\ mp.pc = "RelativeMove" /\ ThinginoMode(mp) /\ mp.pan # "none"
    /\ mp.limits.pan_min.known /\ mp.limits.pan_max.known
    /\ -Scale <= PanValue /\ PanValue <= Scale

PresetMissing(c) ==
    /\ profiles[c.profile].has_ptz /\ profiles[c.profile].presets_known
    /\ c.preset \notin profiles[c.profile].presets

\* C15: a GotoPreset command whose PTZ service was obtained sends GotoPreset
\* to the device unless the profile's cached preset list is present, lacks
\* the requested token, and tolerant mode is off; in exactly that case it
\* sends no PTZ operation at all.
C15_GotoPresetGuard ==
    \A c \in PtzCmds :
        (c.kind = "ptz" /\ c.mode = GOTOPRESET_MOVE /\ capabilities_ptz)
        => IF PresetMissing(c) /\ ~ptz_fallback
           THEN MoveCalls(c) = {} /\ c.stage \in {"idle", "service", "done"}
           ELSE (c.stage = "move" \/ (c.stage = "done" /\ c.clean))
                    => (\E i \in MoveCalls(c) : c.log[i] = Sent(GOTOPRESET_MOVE, c.profile))

\* A token that is not in the present list is rejected with tolerant mode
\* off.
C15_Witness ==
    \E c \in PtzCmds :
        /\ c.kind = "ptz" /\ c.mode = GOTOPRESET_MOVE /\ c.profile = "p0"
        /\ PresetMissing(c) /\ ~ptz_fallback
        /\ c.stage = "done" /\ c.rejected /\ MoveCalls(c) = {}

\* The other cases of C15 happen too: list absent, token listed, tolerant.
C15_AbsentListWitness ==
    \E c \in PtzCmds :
        /\ c.kind = "ptz" /\ c.mode = GOTOPRESET_MOVE
        /\ ~profiles[c.profile].presets_known /\ c.stage = "done" /\ c.clean
        /\ MoveCalls(c) # {}
C15_TolerantWitness ==
    \E c \in PtzCmds :
        /\ c.kind = "ptz" /\ c.mode = GOTOPRESET_MOVE
        /\ PresetMissing(c) /\ ptz_fallback /\ c.stage = "move"

\* The command of task t is over and the last call it made was PTZ operation
\* call that ended with exc.
MoveEndedWith(t, exc) ==
    /\ cmd[t].kind = "ptz" /\ cmd[t].stage = "done"
    /\ lastCall[t].label \in MoveModes
    /\ lastCall[t].outcome = exc

\* C16: no fault the device reports on a PTZ move call is raised to the
\* caller of async_perform_ptz: the command returns normally.
C16_FaultsAbsorbed ==
    \A t \in Tasks :
        (MoveEndedWith(t, "fault") \/ MoveEndedWith(t, "onvif"))
        => cmd[t].status = "returned"

\* C17: a PTZ command never raises to its caller, not even when its move
\* call is disconnected on every attempt.
C17_CommandsNeverRaise ==
    \A t \in Tasks : MoveEndedWith(t, "disconnect") => cmd[t].status = "returned"


\* ============================================ Part 5: extras discovery
\* One pass of async_discover_thingino_extras, as async_setup runs it: the
\* ONVIF relay probe through the call primitive, the endpoint fetches, the
\* manual JSON, the parse.

StopProbingNever(payload) == FALSE

\* `if payload is not None: endpoint_used = candidate; break`
StopProbing(payload) == payload # <<>>

\* async_discover_thingino_extras after the endpoint fetches: payload is what
\* they yielded (<<>> for None).  Gives the extras fields and how the pass
\* ends.
FinishDiscovery(x, payload, endpoint_used) ==
    LET manual_tried == payload = <<>> /\ x.manual.kind # "absent"
        loaded == manual_tried /\ x.manual.kind \in {"array", "object"}
        kind == IF payload # <<>> THEN "object"
                ELSE IF loaded THEN x.manual.kind ELSE "none"
        doc == IF payload # <<>> THEN payload ELSE x.manual.doc
        y == [x EXCEPT !.manual_used = manual_tried,
                       !.thingino_extras_source = IF loaded THEN "manual" ELSE @]
        z == [y EXCEPT !.thingino_extras_source = IF @ = "none" THEN "http" ELSE @,
                       !.thingino_extras_endpoint =
                           IF endpoint_used # "none" THEN endpoint_used ELSE @]
    IN  CASE kind = "none" -> [extras |-> y, status |-> "returned", exc |-> "none"]
          [] kind = "array" -> [extras |-> z, status |-> "raised", exc |-> "attribute"]
          [] OTHER -> [extras |-> [ParseExtras(z, doc[1]) EXCEPT !.thingino_ptz_mode = TRUE],
                       status |-> "returned", exc |-> "none"]

\* A call of async_discover_thingino_extras begins: its locals are fresh, the
\* session's fields are as the last pass, if any, left them.
StartPass(x) ==
    [x EXCEPT !.onvif_relays = <<>>, !.candidate = 0, !.fetched = <<>>,
              !.payload = <<>>, !.manual_used = FALSE]

\* The pass up to its first await: nothing when extras are disabled, else
\* the relay probe's create_deviceio_service.
DiscoverExtras(t) ==
    /\ t \in active /\ commandsLeft > 0
    /\ cmd[t].stage \in {"idle", "done"} /\ cmd[t].kind \in {"none", "extras"}
    /\ stack[t] = <<>>
    /\ LET c == [IdleCmd EXCEPT !.kind = "extras"] IN
       IF ~extras.enabled
       THEN /\ cmd' = [cmd EXCEPT ![t] = Finished(c, "returned", "none")]
            /\ UNCHANGED <<stack, overlap>>
       ELSE /\ cmd' = [cmd EXCEPT ![t] =
                  [c EXCEPT !.stage = "deviceio", !.service = {device},
                            !.log = <<Sent("create_deviceio_service", "none")>>]]
            /\ stack' = [stack EXCEPT ![t] =
                  <<NewFrame("create_deviceio_service", device, onvif_reset_count,
                             onvif_retry_count, device, onvif_session, clientOpen,
                             sessionOpen)>>]
            /\ overlap' = (overlap \/ DispatchOverlaps(t))
    /\ commandsLeft' = commandsLeft - 1
    /\ extras' = StartPass(extras)
    /\ UNCHANGED <<transportVars, setupVars, lastCall, timer, failuresLeft, mp>>

\* `await self._async_fetch_thingino_json(...)` is over with resp.  A
\* configured endpoint is the only one fetched; else the loop goes on to the
\* next candidate unless it breaks; after the fetches the pass runs to its end.
FetchDone(t, resp) ==
    /\ cmd[t].kind = "extras" /\ cmd[t].stage = "fetch" /\ stack[t] = <<>>
    /\ LET endpoint == PendingEndpoint(extras)
           x == [extras EXCEPT !.payload = resp,
                    !.fetched = Append(@, [endpoint |-> endpoint, got |-> resp # <<>>])]
           more == /\ extras.configured = "none" /\ ~StopProbing(resp)
                   /\ extras.candidate < Len(DEFAULT_THINGINO_EXTRAS_ENDPOINTS)
           end == FinishDiscovery(x, resp,
                      IF resp # <<>> THEN endpoint ELSE "none")
       IN  IF more
           THEN /\ extras' = [x EXCEPT !.candidate = @ + 1]
                /\ UNCHANGED cmd
           ELSE /\ extras' = end.extras
                /\ cmd' = [cmd EXCEPT ![t] = Finished(cmd[t], end.status, end.exc)]
    /\ UNCHANGED <<transportVars, setupVars, stack, lastCall, timer, failuresLeft,
                   commandsLeft, overlap, mp>>

\* A fresh session, the entry's options and the device's relay outputs.
InitExtras ==
    /\ InitTransport /\ InitTasks
    /\ capabilities_ptz = TRUE /\ ptz_fallback = FALSE
    /\ profiles = SetupProfiles(TRUE)
    /\ active = {"t1"}
    /\ failuresLeft = MaxFailures
    /\ commandsLeft = 1
    /\ mp = NoMapping
    /\ \E enabled \in BOOLEAN, configured \in {"none", "configured"},
          manual \in ManualBlobs, outputs \in RelayOutputs :
          extras = [NoExtras EXCEPT !.enabled = enabled, !.configured = configured,
                                    !.manual = manual, !.outputs = outputs]

NextExtras ==
    \/ \E t \in Tasks : DiscoverExtras(t)
    \/ \E t \in Tasks, resp \in FetchResults : FetchDone(t, resp)
    \/ TransportStep

\* Extras discovery during session setup.
SpecExtras == InitExtras /\ [][NextExtras]_vars

\* ============================================ properties of extras discovery
\* The discovery pass is over.
DiscoveryDone == \E t \in Tasks : cmd[t].kind = "extras" /\ cmd[t].stage = "done"
DiscoveryRaised ==
    \E t \in Tasks : cmd[t].kind = "extras" /\ cmd[t].stage = "done"
                       /\ cmd[t].status = "raised"
GotDocument == \E i \in 1..Len(extras.fetched) : extras.fetched[i].got

\* C18: if the ONVIF relay-output probe returned at least one relay, then
\* after the discovery pass the session's relay list is exactly those
\* relays, whatever relays the JSON document holds.
C18_OnvifRelaysWin ==
    (DiscoveryDone /\ extras.onvif_relays # <<>>)
    => extras.thingino_relays = extras.onvif_relays

\* C19: in a discovery pass, a configured endpoint is the only endpoint
\* fetched; without one the candidates are fetched in their order and none is
\* fetched after one that returned a JSON object; the manual JSON is used
\* only if no endpoint yielded a document.
C19_DocumentPrecedence ==
    /\ extras.configured # "none" =>
          \A i \in 1..Len(extras.fetched) :
              i = 1 /\ extras.fetched[i].endpoint = extras.configured
    /\ extras.configured = "none" =>
          /\ Len(extras.fetched) <= Len(DEFAULT_THINGINO_EXTRAS_ENDPOINTS)
          /\ \A i \in 1..Len(extras.fetched) :
                /\ extras.fetched[i].endpoint = DEFAULT_THINGINO_EXTRAS_ENDPOINTS[i]
                /\ extras.fetched[i].got => i = Len(extras.fetched)
          /\ (DiscoveryDone /\ extras.enabled /\ ~GotDocument)
                => Len(extras.fetched) = Len(DEFAULT_THINGINO_EXTRAS_ENDPOINTS)
    /\ GotDocument => (DiscoveryDone /\ ~extras.manual_used)
    /\ extras.thingino_extras_source = "manual" => ~GotDocument

\* The second candidate returned a document: the third was not fetched and
\* the manual JSON, though present, was not used.
C19_Witness ==
    /\ DiscoveryDone /\ extras.configured = "none"
    /\ Len(extras.fetched) = 2 /\ extras.fetched[2].got
    /\ extras.manual.kind = "object" /\ ~extras.manual_used

\* C20: a document that is no JSON object, from an endpoint or from the
\* manual JSON, counts as no extras: the pass ends without raising and adds
\* no aux command, no toggle and no relay.
C20_MalformedIsAbsent ==
    (DiscoveryDone /\ ~GotDocument /\ extras.manual.kind \in {"invalid", "array"})
    => /\ ~DiscoveryRaised
       /\ extras.thingino_aux_commands = <<>>
       /\ extras.thingino_aux_toggles = <<>>
       /\ extras.thingino_relays = extras.onvif_relays


\* ============================================ Part 6: parsing a document
\* _parse_thingino_extras applied to one JSON object, once and again, on a
\* session whose relay probe has returned.

MaxAux == 3
MaxParses == 2

\* The aux entries a document may hold: halves of toggles whose exec strings
\* may coincide, a plain command, and an entry without exec.
AuxEntries ==
    {Aux(b, st, e) : b \in {"Light", "Siren"}, st \in {"on", "off"}, e \in {"x1", "x0"}}
    \cup {Aux("Reboot", "", "x1"), Aux("Light", "on", "")}
ParseDocs ==
    {Doc(a, r) : a \in UNION {[1..k -> AuxEntries] : k \in 0..MaxAux},
                 r \in RelayLists}

InitParse ==
    /\ InitTransport /\ InitTasks
    /\ capabilities_ptz = TRUE /\ ptz_fallback = FALSE
    /\ profiles = SetupProfiles(TRUE)
    /\ active = {"t1"}
    /\ failuresLeft = 0 /\ commandsLeft = 0
    /\ \E doc \in ParseDocs, outputs \in RelayOutputs :
          /\ mp = [pc |-> "parse", doc |-> doc, parses |-> 0]
          /\ extras = [ProbeReturned([NoExtras EXCEPT !.enabled = TRUE,
                                                      !.outputs = outputs],
                                     OnvifRelays(outputs))
                          EXCEPT !.payload = <<doc>>]

\* `self._parse_thingino_extras(payload)`
ParseDocument ==
    /\ mp.pc = "parse" /\ mp.parses < MaxParses
    /\ extras' = ParseExtras(extras, mp.doc)
    /\ mp' = [mp EXCEPT !.parses = @ + 1]
    /\ UNCHANGED <<transportVars, setupVars, taskVars, failuresLeft, commandsLeft,
                   overlap>>

NextParse == ParseDocument

SpecParse == InitParse /\ [][NextParse]_vars

\* ============================================ properties of the parse
Parsed == mp.pc = "parse" /\ mp.parses >= 1
\* The document's aux entries that have a name and an exec.
ParsedAux == ParseAux(mp.doc)
HasHalf(b, st) ==
    \E i \in 1..Len(ParsedAux) :
        ToggleHalf(ParsedAux[i]) /\ ParsedAux[i].base = b /\ ParsedAux[i].state = st
NamesUnique ==
    \A i, j \in 1..Len(ParsedAux) :
        (ParsedAux[i].base = ParsedAux[j].base /\ ParsedAux[i].state = ParsedAux[j].state)
            => i = j
Standalone(a) ==
    \E k \in 1..Len(extras.thingino_aux_commands) : extras.thingino_aux_commands[k] = a
TogglesNamed(b) ==
    {k \in 1..Len(extras.thingino_aux_toggles) : extras.thingino_aux_toggles[k].name = b}

\* C21: after a parse of a document whose aux names are distinct, an entry
\* named "<base> on" and an entry named "<base> off" give exactly one toggle
\* named <base> that carries their two exec strings, and neither of the two
\* is a standalone command; an entry named "<base> on" or "<base> off"
\* without its other half is a standalone command.
C21_TogglePairing ==
    (Parsed /\ NamesUnique) =>
        \A i \in 1..Len(ParsedAux) :
            LET a == ParsedAux[i]
                other == IF a.state = "on" THEN "off" ELSE "on"
            IN  ToggleHalf(a) =>
                    IF HasHalf(a.base, other)
                    THEN /\ Cardinality(TogglesNamed(a.base)) = 1
                         /\ \A k \in TogglesNamed(a.base) :
                               a.exec = IF a.state = "on"
                                        THEN extras.thingino_aux_toggles[k].on_exec
                                        ELSE extras.thingino_aux_toggles[k].off_exec
                         /\ ~Standalone(a)
                    ELSE Standalone(a)

ParsedLists(x) ==
    <<x.thingino_aux_commands, x.thingino_aux_toggles, x.thingino_relays>>

\* C22: a second parse of the same document leaves the aux command list, the
\* toggle list and the relay list as the first parse left them.
C22_ReparseIdempotent ==
    [][Parsed => ParsedLists(extras') = ParsedLists(extras)]_vars

\* The document was parsed twice and gave a toggle, a standalone command and
\* a relay.
C22_Witness ==
    /\ mp.pc = "parse" /\ mp.parses = 2
    /\ extras.thingino_aux_toggles # <<>>
    /\ extras.thingino_aux_commands # <<>>
    /\ \E k \in 1..Len(extras.thingino_relays) : ~extras.thingino_relays[k].via_onvif


\* ============================================ Part 7: discovery, again
\* async_discover_thingino_extras called more than once on one session, the
\* device answering every SOAP call.

MaxPasses == 2

InitRediscover ==
    /\ InitTransport /\ InitTasks
    /\ capabilities_ptz = TRUE /\ ptz_fallback = FALSE
    /\ profiles = SetupProfiles(TRUE)
    /\ active = {"t1"}
    /\ failuresLeft = 0
    /\ commandsLeft = MaxPasses
    /\ mp = NoMapping
    /\ \E enabled \in BOOLEAN, configured \in {"none", "configured"},
          manual \in ManualBlobs, outputs \in RelayOutputs :
          extras = [NoExtras EXCEPT !.enabled = enabled, !.configured = configured,
                                    !.manual = manual, !.outputs = outputs]

NextRediscover ==
    \/ \E t \in Tasks : DiscoverExtras(t)
    \/ \E t \in Tasks, resp \in FetchResults : FetchDone(t, resp)
    \/ \E t \in Tasks : InvokeOk(t)

SpecRediscover == InitRediscover /\ [][NextRediscover]_vars

\* The document the pass that just ended parsed, if any.
PassDocument ==
    IF extras.payload # <<>> THEN extras.payload
    ELSE IF extras.manual_used /\ extras.manual.kind = "object" THEN extras.manual.doc
    ELSE <<>>
Range(seq) == {seq[i] : i \in 1..Len(seq)}
\* What the sources of the pass that just ended produce.
PassAux ==
    IF PassDocument = <<>> THEN {} ELSE Range(RemainingAux(ParseAux(PassDocument[1])))
PassToggles ==
    IF PassDocument = <<>> THEN {} ELSE Range(BuildToggles(ParseAux(PassDocument[1])))
PassRelays ==
    Range(extras.onvif_relays)
        \cup (IF PassDocument = <<>> THEN {} ELSE Range(ParseRelays(PassDocument[1])))

MaxContent == 4

\* str.strip(), str.lstrip(): the whitespace at the ends goes.
RECURSIVE LStrip(_)
LStrip(text) ==
    IF text # <<>> /\ Head(text) = " " THEN LStrip(Tail(text)) ELSE text
RECURSIVE RStrip(_)
RStrip(text) ==
    IF text # <<>> /\ text[Len(text)] = " "
    THEN RStrip(SubSeq(text, 1, Len(text) - 1)) ELSE text
StrStrip(text) == RStrip(LStrip(text))

\* str.strip(","): the commas at the ends go.
RECURSIVE StripCommas(_)
StripCommas(text) ==
    IF text # <<>> /\ Head(text) = "," THEN StripCommas(Tail(text))
    ELSE IF text # <<>> /\ text[Len(text)] = ","
         THEN StripCommas(SubSeq(text, 1, Len(text) - 1))
         ELSE text

StartsWith(text, prefix) ==
    Len(text) >= Len(prefix) /\ SubSeq(text, 1, Len(prefix)) = prefix
EndsWith(text, suffix) ==
    Len(text) >= Len(suffix)
        /\ SubSeq(text, Len(text) - Len(suffix) + 1, Len(text)) = suffix

\* re.IGNORECASE, for the letters of the tag.
Lower(c) == CASE c = "P" -> "p" [] c = "R" -> "r" [] c = "E" -> "e" [] OTHER -> c
MatchesAt(text, i, pattern) ==
    /\ i + Len(pattern) - 1 <= Len(text)
    /\ \A n \in 1..Len(pattern) : Lower(text[i + n - 1]) = pattern[n]
Least(S) == CHOOSE n \in S : \A m \in S : n <= m

\* _PRE_BLOCK_RE.search(text): the leftmost `<pre`, its tag up to the first
\* `>`, and the text up to the first `</pre>` after it; <<>> when nothing
\* matches, else <<group 1>>.
PreBlock(text) ==
    LET open == <<"<", "p", "r", "e">>
        close == <<"<", "/", "p", "r", "e", ">">>
        TagEnds(i) == {j \in (i + Len(open))..Len(text) : text[j] = ">"}
        Closes(j) == {k \in (j + 1)..Len(text) : MatchesAt(text, k, close)}
        Starts == {i \in 1..Len(text) :
                      /\ MatchesAt(text, i, open) /\ TagEnds(i) # {}
                      /\ Closes(Least(TagEnds(i))) # {}}
    IN  IF Starts = {} THEN <<>>
        ELSE LET j == Least(TagEnds(Least(Starts)))
             IN  <<SubSeq(text, j + 1, Least(Closes(j)) - 1)>>

\* html.entities.html5, the names a text of the model can hold after an
\* ampersand: those html.escape writes, with and without the semicolon, and
\* `ll;`.
Html5 ==
    { [name |-> <<"a", "m", "p", ";">>, char |-> "&"], [name |-> <<"a", "m", "p">>, char |-> "&"],
      [name |-> <<"l", "t", ";">>, char |-> "<"], [name |-> <<"l", "t">>, char |-> "<"],
      [name |-> <<"g", "t", ";">>, char |-> ">"], [name |-> <<"g", "t">>, char |-> ">"],
      [name |-> <<"q", "u", "o", "t", ";">>, char |-> "\""], [name |-> <<"q", "u", "o", "t">>, char |-> "\""],
      [name |-> <<"l", "l", ";">>, char |-> "much-less-than"] }
InHtml5(name) == \E e \in Html5 : e.name = name
CharOf(name) == (CHOOSE e \in Html5 : e.name = name).char

\* html._replace_charref for a named reference s: the whole name, else its
\* longest proper prefix of two characters or more that is a name, else the
\* text as it was.
ReplaceCharref(s) ==
    LET prefixes == {x \in 2..(Len(s) - 1) : InHtml5(SubSeq(s, 1, x))}
        longest == CHOOSE x \in prefixes : \A y \in prefixes : y <= x
    IN  IF InHtml5(s) THEN <<CharOf(s)>>
        ELSE IF prefixes # {}
             THEN <<CharOf(SubSeq(s, 1, longest))>> \o SubSeq(s, longest + 1, Len(s))
             ELSE <<"&">> \o s

\* The characters that end a reference name: [^\t\n\f <&#;]
RECURSIVE NameLength(_)
NameLength(text) ==
    IF text = <<>> \/ Head(text) \in {" ", "<", "&", "#", ";"} THEN 0
    ELSE 1 + NameLength(Tail(text))

HtmlUnescapeNone(text) == text

\* html.unescape(text): each `&name` or `&name;` is replaced, left to right,
\* and what replaces it is not scanned again.
RECURSIVE HtmlUnescape(_)
HtmlUnescape(text) ==
    IF text = <<>> THEN <<>>
    ELSE IF Head(text) # "&" THEN <<Head(text)>> \o HtmlUnescape(Tail(text))
    ELSE LET rest == Tail(text)
             n == NameLength(rest)
             semi == n < Len(rest) /\ rest[n + 1] = ";"
             len == IF semi THEN n + 1 ELSE n
         IN  IF n = 0 THEN <<"&">> \o HtmlUnescape(rest)
             ELSE ReplaceCharref(SubSeq(rest, 1, len))
                      \o HtmlUnescape(SubSeq(rest, len + 1, Len(rest)))

\* json.loads(text) for the documents of the model: `{}`, an object with the
\* one key k and a string value, `[]`; any other text is a JSONDecodeError.
JsonLoads(text) ==
    LET body == StrStrip(text)
        head == <<"{", "\"", "k", "\"", ":", "\"">>
        tail == <<"\"", "}">>
        value == SubSeq(body, Len(head) + 1, Len(body) - Len(tail))
    IN  IF body = <<"{", "}">> THEN [ok |-> TRUE, kind |-> "dict", items |-> {}]
        ELSE IF /\ Len(body) >= Len(head) + Len(tail)
                /\ StartsWith(body, head) /\ EndsWith(body, tail)
                /\ \A i \in 1..Len(value) : value[i] # "\""
        THEN [ok |-> TRUE, kind |-> "dict", items |-> {[key |-> "k", value |-> value]}]
        ELSE IF body = <<"[", "]">> THEN [ok |-> TRUE, kind |-> "list", items |-> {}]
        ELSE [ok |-> FALSE, kind |-> "none", items |-> {}]

\* What a parser gives: None, a value, or a JSONDecodeError.
ParsedNone == [kind |-> "none", items |-> {}]
ParsedValue(data) == [kind |-> data.kind, items |-> data.items]
ParseRaised == [kind |-> "raised", items |-> {}]

\* parse_thingino_onvif_html(text)
parse_thingino_onvif_html(text) ==
    LET match == PreBlock(text)
        payload == StrStrip(HtmlUnescape(match[1]))
        wrapped == IF StartsWith(LStrip(payload), <<"{">>) THEN payload
                   ELSE <<"{">> \o StripCommas(StrStrip(payload)) \o <<"}">>
        data == JsonLoads(wrapped)
    IN  IF match = <<>> THEN ParsedNone
        ELSE IF payload = <<>> THEN ParsedNone
        ELSE IF data.ok THEN ParsedValue(data) ELSE ParseRaised

\* parse_thingino_onvif_payload(text)
parse_thingino_onvif_payload(text) ==
    LET payload == StrStrip(text)
        data == JsonLoads(payload)
    IN  IF (StartsWith(payload, <<"{">>) \/ StartsWith(payload, <<"[">>)) /\ data.ok
        THEN IF data.kind = "dict" THEN ParsedValue(data) ELSE ParsedNone
        ELSE parse_thingino_onvif_html(text)

\* The page a firmware writes around a document: the document's characters
\* HTML-escaped (html.escape, with or without the quotes), in a <pre> block.
RECURSIVE HtmlEscape(_, _)
HtmlEscape(text, quote) ==
    IF text = <<>> THEN <<>>
    ELSE (CASE Head(text) = "&" -> <<"&", "a", "m", "p", ";">>
            [] Head(text) = "<" -> <<"&", "l", "t", ";">>
            [] Head(text) = ">" -> <<"&", "g", "t", ";">>
            [] Head(text) = "\"" /\ quote -> <<"&", "q", "u", "o", "t", ";">>
            [] OTHER -> <<Head(text)>>) \o HtmlEscape(Tail(text), quote)
Pages ==
    { [before |-> <<"<", "h", "t", "m", "l", ">", "<", "p", "r", "e", ">">>, after |-> <<"<", "/", "p", "r", "e", ">", "<", "/", "h", "t", "m", "l", ">">>],
      [before |-> <<"<", "P", "R", "E", " ", "k", ">", " ">>, after |-> <<" ", "<", "/", "P", "R", "E", ">">>] }
HtmlPage(page, text, quote) == page.before \o HtmlEscape(text, quote) \o page.after

\* The JSON object documents: `{}` and `{"k":"..."}` with a value of up to
\* MaxContent characters in which `<`, `&`, references and a closing tag occur.
ContentChars == {"&", "<", ";", "l", "t"}
Contents ==
    UNION {[1..n -> ContentChars] : n \in 0..MaxContent}
        \cup {<<"<", "/", "p", "r", "e", ">">>, <<"&", "a", "m", "p", ";", "l", "t", ";">>}
ObjectDocuments ==
    {<<"{", "}">>, <<" ", "{", "}", " ">>} \cup {<<"{", "\"", "k", "\"", ":", "\"">> \o c \o <<"\"", "}">> : c \in Contents}

InitBody ==
    /\ InitTransport /\ InitTasks
    /\ capabilities_ptz = TRUE /\ ptz_fallback = FALSE
    /\ profiles = SetupProfiles(TRUE)
    /\ active = {"t1"}
    /\ failuresLeft = 0 /\ commandsLeft = 0
    /\ extras = NoExtras
    /\ \E doc \in ObjectDocuments, page \in Pages, quote \in BOOLEAN :
          mp = [pc |-> "body", doc |-> doc, html |-> HtmlPage(page, doc, quote),
                raw |-> <<>>, wrapped |-> <<>>]

\* The response body is the document itself.
ParseRawBody ==
    /\ mp.pc = "body" /\ mp.raw = <<>>
    /\ mp' = [mp EXCEPT !.raw = <<parse_thingino_onvif_payload(mp.doc)>>]
    /\ UNCHANGED <<transportVars, setupVars, taskVars, failuresLeft, commandsLeft,
                   overlap, extras>>

\* The response body is the page that holds the document.
ParseHtmlBody ==
    /\ mp.pc = "body" /\ mp.wrapped = <<>>
    /\ mp' = [mp EXCEPT !.wrapped = <<parse_thingino_onvif_payload(mp.html)>>]
    /\ UNCHANGED <<transportVars, setupVars, taskVars, failuresLeft, commandsLeft,
                   overlap, extras>>

NextBody == ParseRawBody \/ ParseHtmlBody

SpecBody == InitBody /\ [][NextBody]_vars

\* C24: for every JSON object document, the parser gives for the page that
\* holds the HTML-escaped document in a <pre> block what it gives for the
\* document itself, and that is the document's object.
C24_HtmlParsesAsRaw ==
    (mp.pc = "body" /\ mp.raw # <<>> /\ mp.wrapped # <<>>)
    => /\ mp.wrapped = mp.raw
       /\ mp.raw[1] = ParsedValue(JsonLoads(mp.doc))
       /\ mp.raw[1].kind = "dict"

\* Both bodies were parsed, of a document whose value holds `<` and `&lt;`.
C24_Witness ==
    /\ mp.pc = "body" /\ mp.raw # <<>> /\ mp.wrapped # <<>>
    /\ mp.doc = <<"{", "\"", "k", "\"", ":", "\"">> \o <<"<", "&", "l", "t">> \o <<"\"", "}">>
    /\ mp.wrapped[1].items = {[key |-> "k", value |-> <<"<", "&", "l", "t">>]}


\* ============================================ Part 9: session setup
\* async_setup from the new client to the started events: device info,
\* capabilities, profiles, extras discovery, the PTZ service.  The setup's
\* position and locals are in mp; the discovery pass is the one of Part 5.

MaxProfiles == 2

\* _maybe_enable_thingino_ptz: the hint tokens, looked for in the lowercased
\* manufacturer and model.  The two strings are sequences of words.
HintTokens == {"thingino", "ingenic", "t31", "sc2336"}
LowerWord(w) ==
    CASE w = "Thingino" -> "thingino" [] w = "T31" -> "t31" [] w = "Acme" -> "acme"
      [] OTHER -> w
ModelHint(info) ==
    \E w \in Range(info.manufacturer \o info.model) : LowerWord(w) \in HintTokens

\* async_get_device_info: the manufacturer, or the model, may be None.
DeviceInfos ==
    { [manufacturer |-> <<>>, model |-> <<"cam">>],
      [manufacturer |-> <<"Acme">>, model |-> <<"cam", "T31">>] }

\* _extract_axis_range: Min and Max of one axis, or the axis not reported.
NoAxisRange == [known |-> FALSE, min |-> 0, max |-> 0]
AxisRange(lo, hi) == [known |-> TRUE, min |-> lo, max |-> hi]
\* _extract_ptz_limits: None when no axis is reported.
SetupLimits(pan, tilt, zoom) == [pan |-> pan, tilt |-> tilt, zoom |-> zoom]
NoSetupLimits == SetupLimits(NoAxisRange, NoAxisRange, NoAxisRange)
HasLimits(limits) == limits.pan.known \/ limits.tilt.known \/ limits.zoom.known

\* `if min_val >= 0 and max_val >= 10`
WideRange(r) == r.known /\ r.min >= 0 /\ r.max >= 10

\* _maybe_enable_thingino_ptz(limits) on the extras fields x.
MaybeEnableThinginoPtz(x, info, limits) ==
    IF x.thingino_ptz_mode THEN x
    ELSE IF ModelHint(info) THEN [x EXCEPT !.thingino_ptz_mode = TRUE]
    ELSE IF x.thingino_extras_source # "none" THEN [x EXCEPT !.thingino_ptz_mode = TRUE]
    ELSE IF WideRange(limits.pan) \/ WideRange(limits.tilt)
         THEN [x EXCEPT !.thingino_ptz_mode = TRUE]
         ELSE x

\* A PTZConfiguration of a device profile: absent, or its three default
\* spaces (present or not) and its limits.
NoPtzConfiguration ==
    [present |-> FALSE, continuous |-> FALSE, relative |-> FALSE, absolute |-> FALSE,
     limits |-> NoSetupLimits]
PtzConfiguration(c, r, a, limits) ==
    [present |-> TRUE, continuous |-> c, relative |-> r, absolute |-> a,
     limits |-> limits]
PtzConfigurations ==
    { NoPtzConfiguration,
      PtzConfiguration(TRUE, FALSE, TRUE,
          SetupLimits(AxisRange(-1, 1), AxisRange(-1, 1), AxisRange(0, 1))),
      PtzConfiguration(FALSE, TRUE, FALSE,
          SetupLimits(AxisRange(0, 100), AxisRange(-1, 1), NoAxisRange)),
      PtzConfiguration(TRUE, TRUE, FALSE,
          SetupLimits(AxisRange(-1, 1), AxisRange(-1, 1), AxisRange(0, 100))) }

\* A profile of GetProfiles: the encoding of its VideoEncoderConfiguration
\* ("none" without one) and its PTZConfiguration.
DeviceProfile(encoding, ptz) == [encoding |-> encoding, ptz |-> ptz]
DeviceProfiles ==
    {DeviceProfile("H264", k) : k \in PtzConfigurations}
        \cup {DeviceProfile("H265", PtzConfiguration(TRUE, FALSE, TRUE, NoSetupLimits)),
              DeviceProfile("none", NoPtzConfiguration)}
DeviceProfileLists == UNION {[1..n -> DeviceProfiles] : n \in 0..MaxProfiles}
DeviceToken(key) == <<"p0", "p1", "p2", "p3">>[key + 1]

RetainedAll(onvif_profile) == onvif_profile.encoding # "none"

\* `VideoEncoderConfiguration and VideoEncoderConfiguration.Encoding == "H264"`
Retained(onvif_profile) == onvif_profile.encoding = "H264"

ProfilePtzReported(config) ==
    IF config.present
    THEN PtzProfile(config.continuous, config.relative, config.absolute, FALSE, {})
    ELSE NoPtzProfile

\* profile.ptz of a PTZ-capable device: the reported spaces, or
\* PTZ(True, True, True).
ProfilePtz(config) ==
    IF config.present
    THEN PtzProfile(config.continuous, config.relative, config.absolute, FALSE, {})
    ELSE PtzProfile(TRUE, TRUE, TRUE, FALSE, {})

\* The outcomes of the preset fetch of one profile: the tokens, an absorbed
\* error of create_ptz_service, an absorbed error of GetPresets, an error that
\* is not absorbed.
PresetFetches == {"tokens", "no_service", "no_presets", "raised"}

\* The Profile built in one iteration of the loop of async_get_profiles.
BuildProfile(key, onvif_profile, ptz, fetch) ==
    [key |-> key, token |-> DeviceToken(key), encoding |-> onvif_profile.encoding,
     ptz |-> IF ~ptz THEN NoPtzProfile
             ELSE [ProfilePtz(onvif_profile.ptz) EXCEPT
                      !.presets_known = (fetch = "tokens"),
                      !.presets = IF fetch = "tokens" THEN {"1"} ELSE {}],
     ptz_limits |-> IF ptz /\ onvif_profile.ptz.present
                    THEN onvif_profile.ptz.limits ELSE NoSetupLimits]

FallbackInferredAlways(available, reported) == available

\* `self.ptz_service_available and not self.ptz_reported`
FallbackInferred(available, reported) == available /\ ~reported

SetupStart ==
    [pc |-> "setup", stage |-> "connect", exc |-> "none",
     info |-> [manufacturer |-> <<>>, model |-> <<>>],
     ptz_reported |-> FALSE, ptz_service_available |-> FALSE, instantiated |-> FALSE,
     listed |-> FALSE, device_profiles |-> <<>>, key |-> 0]
SetupFailed(m, exc) == [m EXCEPT !.stage = "failed", !.exc = exc]

\* The documents of the setups of the model: one with aux entries and relays.
SetupDocument == Doc(<<Aux("Light", "on", "light1"), Aux("Light", "off", "light0")>>,
                     <<JsonRelay("open1", "close1")>>)
SetupFetchResults == {<<>>, <<SetupDocument>>}

InitSetupSession ==
    /\ InitTransport /\ InitTasks
    /\ capabilities_ptz = FALSE /\ ptz_fallback = FALSE
    /\ profiles = <<>>
    /\ active = {"t1"}
    /\ failuresLeft = 0
    /\ commandsLeft = 1
    /\ mp = SetupStart
    /\ \E enabled \in BOOLEAN, outputs \in RelayOutputs :
          extras = [NoExtras EXCEPT !.enabled = enabled, !.configured = "configured",
                                    !.outputs = outputs]

\* Lines 148-163: the client, update_xaddrs, get_capabilities, the clock.
SetupConnect(ok) ==
    /\ mp.pc = "setup" /\ mp.stage = "connect"
    /\ mp' = IF ok THEN [mp EXCEPT !.stage = "info"] ELSE SetupFailed(mp, "connect")
    /\ UNCHANGED <<transportVars, setupVars, taskVars, failuresLeft, commandsLeft,
                   overlap, extras>>

\* `self.info = await self.async_get_device_info()` and
\* `self._maybe_enable_thingino_ptz(PTZLimits())`
SetupDeviceInfo(info, ok) ==
    /\ mp.pc = "setup" /\ mp.stage = "info"
    /\ IF ok
       THEN /\ mp' = [mp EXCEPT !.stage = "capabilities", !.info = info]
            /\ extras' = MaybeEnableThinginoPtz(extras, info, NoSetupLimits)
       ELSE /\ mp' = SetupFailed(mp, "fault")
            /\ UNCHANGED extras
    /\ UNCHANGED <<transportVars, setupVars, taskVars, failuresLeft, commandsLeft,
                   overlap>>

\* async_get_capabilities: get_definition("ptz") found the service or not;
\* create_ptz_service returned, raised an absorbed error, or another error.
SetupCapabilities(reported, created) ==
    /\ mp.pc = "setup" /\ mp.stage = "capabilities"
    /\ IF created = "raised"
       THEN /\ mp' = [SetupFailed(mp, "xml") EXCEPT !.ptz_reported = reported]
            /\ UNCHANGED <<capabilities_ptz, ptz_fallback>>
       ELSE /\ mp' = [mp EXCEPT !.stage = "get_profiles", !.ptz_reported = reported,
                                !.ptz_service_available = (created = "ok"),
                                !.instantiated = (created = "ok")]
            /\ ptz_fallback' = FallbackInferred(created = "ok", reported)
            /\ capabilities_ptz' = (reported \/ created = "ok")
    /\ UNCHANGED <<transportVars, profiles, active, taskVars, failuresLeft,
                   commandsLeft, overlap, extras>>

\* The end of async_get_profiles and `if not self.profiles: raise ONVIFError`.
AfterEnumeration(m, retained) ==
    IF retained = <<>> THEN SetupFailed(m, "no_profiles")
    ELSE [m EXCEPT !.stage = "discover"]

\* create_media_service and GetProfiles: an error, a result that is no
\* list, or the list of the device's profiles.
SetupGetProfiles(result, list) ==
    /\ mp.pc = "setup" /\ mp.stage = "get_profiles"
    /\ mp' = CASE result = "raised" -> SetupFailed(mp, "onvif")
               [] result = "no_list" -> AfterEnumeration(mp, <<>>)
               [] OTHER ->
                    LET m == [mp EXCEPT !.listed = TRUE, !.device_profiles = list,
                                        !.key = 0]
                    IN  IF list = <<>> THEN AfterEnumeration(m, <<>>)
                        ELSE [m EXCEPT !.stage = "profile"]
    /\ UNCHANGED <<transportVars, setupVars, taskVars, failuresLeft, commandsLeft,
                   overlap, extras>>

\* One iteration of `for key, onvif_profile in enumerate(result)`.
SetupProfile(fetch) ==
    /\ mp.pc = "setup" /\ mp.stage = "profile"
    /\ LET onvif_profile == mp.device_profiles[mp.key + 1]
           last == mp.key + 1 = Len(mp.device_profiles)
           profile == BuildProfile(mp.key, onvif_profile, capabilities_ptz, fetch)
           retained == IF Retained(onvif_profile) THEN Append(profiles, profile)
                       ELSE profiles
           examined == Retained(onvif_profile) /\ capabilities_ptz
           m == [mp EXCEPT !.key = @ + 1,
                           !.instantiated =
                               @ \/ (examined /\ fetch \in {"tokens", "no_presets"})]
       IN  /\ extras' = IF examined /\ HasLimits(profile.ptz_limits)
                        THEN MaybeEnableThinginoPtz(extras, mp.info, profile.ptz_limits)
                        ELSE extras
           /\ IF examined /\ fetch = "raised"
              THEN /\ mp' = SetupFailed(m, "xml")
                   /\ UNCHANGED profiles
              ELSE /\ profiles' = retained
                   /\ mp' = IF last THEN AfterEnumeration(m, retained) ELSE m
    /\ UNCHANGED <<transportVars, capabilities_ptz, ptz_fallback, active, taskVars,
                   failuresLeft, commandsLeft, overlap>>

\* `await self.async_discover_thingino_extras()`
SetupDiscover(t) ==
    /\ mp.pc = "setup" /\ mp.stage = "discover"
    /\ DiscoverExtras(t)

\* The pass is over.  Lines 191-208: with capabilities.ptz the PTZ service is
\* created again.
SetupPtzService(created) ==
    /\ mp.pc = "setup" /\ mp.stage = "discover" /\ DiscoveryDone
    /\ IF DiscoveryRaised
       THEN /\ mp' = SetupFailed(mp, "attribute")
            /\ UNCHANGED ptz_fallback
       ELSE IF ~capabilities_ptz
       THEN /\ mp' = [mp EXCEPT !.stage = "finish"]
            /\ UNCHANGED ptz_fallback
       ELSE IF created = "raised"
       THEN /\ mp' = SetupFailed(mp, "xml")
            /\ UNCHANGED ptz_fallback
       ELSE IF created = "caught"
       THEN /\ mp' = [mp EXCEPT !.stage = "finish"]
            /\ UNCHANGED ptz_fallback
       ELSE /\ mp' = [mp EXCEPT !.stage = "finish", !.ptz_service_available = TRUE,
                                !.instantiated = TRUE]
            /\ ptz_fallback' = (ptz_fallback \/ FallbackInferred(TRUE, mp.ptz_reported))
    /\ UNCHANGED <<transportVars, capabilities_ptz, profiles, active, taskVars,
                   failuresLeft, commandsLeft, overlap, extras>>

\* The PTZ probe, max_resolution, the events.
SetupFinish(ok) ==
    /\ mp.pc = "setup" /\ mp.stage = "finish"
    /\ mp' = IF ok THEN [mp EXCEPT !.stage = "done"] ELSE SetupFailed(mp, "events")
    /\ UNCHANGED <<transportVars, setupVars, taskVars, failuresLeft, commandsLeft,
                   overlap, extras>>

Created == {"ok", "caught", "raised"}

NextSetup ==
    \/ \E ok \in BOOLEAN : SetupConnect(ok)
    \/ \E info \in DeviceInfos, ok \in BOOLEAN : SetupDeviceInfo(info, ok)
    \/ \E reported \in BOOLEAN, created \in Created : SetupCapabilities(reported, created)
    \/ \E result \in {"raised", "no_list", "list"}, list \in DeviceProfileLists :
          SetupGetProfiles(result, list)
    \/ \E fetch \in PresetFetches : SetupProfile(fetch)
    \/ \E t \in Tasks : SetupDiscover(t)
    \/ \E t \in Tasks, resp \in SetupFetchResults : FetchDone(t, resp)
    \/ \E t \in Tasks : InvokeOk(t)
    \/ \E created \in Created : SetupPtzService(created)
    \/ \E ok \in BOOLEAN : SetupFinish(ok)

SpecSetup == InitSetupSession /\ [][NextSetup]_vars

\* ============================================ properties of the setup
SetupDone == mp.pc = "setup" /\ mp.stage = "done"
\* A document was parsed in the discovery pass.
ExtrasDiscovered == PassDocument # <<>>
WideProfile(profile) ==
    WideRange(profile.ptz_limits.pan) \/ WideRange(profile.ptz_limits.tilt)
        \/ WideRange(profile.ptz_limits.zoom)

\* C25: after setup the device-specific PTZ mode is on if the manufacturer
\* or model holds a hint token, or an extras document was discovered, or a
\* pan, tilt or zoom range of a retained profile has min >= 0 and max >= 10.
C25_DeviceSpecificMode ==
    (SetupDone /\ (\/ ModelHint(mp.info)
                   \/ ExtrasDiscovered
                   \/ \E i \in 1..Len(profiles) : WideProfile(profiles[i])))
    => extras.thingino_ptz_mode

\* C26: in every state of the setup, the fallback flag is set if the PTZ
\* service was instantiated and the device did not report PTZ, and the flag
\* is set only if the service is available and PTZ was not reported.
C26_FallbackInference ==
    mp.pc = "setup" =>
        /\ (mp.instantiated /\ ~mp.ptz_reported) => ptz_fallback
        /\ ptz_fallback => (mp.ptz_service_available /\ ~mp.ptz_reported)

\* The setup is over with the fallback flag set.
C26_Witness == SetupDone /\ ptz_fallback /\ mp.ptz_service_available

\* The setup is over, the device reported PTZ and its service was created.
C26_ReportedWitness ==
    SetupDone /\ mp.ptz_reported /\ mp.ptz_service_available /\ ~ptz_fallback

\* C27: when the device is PTZ-capable, every retained profile has a PTZ
\* configuration: the spaces the device reported for it, or, when it
\* reported none, continuous, relative and absolute all true.
C27_EveryProfileHasPtz ==
    (mp.pc = "setup" /\ capabilities_ptz) =>
        \A i \in 1..Len(profiles) :
            LET config == mp.device_profiles[profiles[i].key + 1].ptz
                ptz == profiles[i].ptz
            IN  /\ ptz.has_ptz
                /\ <<ptz.continuous, ptz.relative, ptz.absolute>> =
                      IF config.present
                      THEN <<config.continuous, config.relative, config.absolute>>
                      ELSE <<TRUE, TRUE, TRUE>>

\* The setup is over with one profile whose configuration was synthesized
\* and one whose configuration the device reported.
C27_Witness ==
    /\ SetupDone /\ capabilities_ptz /\ Len(profiles) = 2
    /\ ~mp.device_profiles[1].ptz.present
    /\ mp.device_profiles[2].ptz.present /\ ~profiles[2].ptz.relative
    /\ profiles[2].ptz.continuous

H264Keys(list) == SelectSeq([i \in 1..Len(list) |-> i - 1],
                            LAMBDA k : list[k + 1].encoding = "H264")

\* C28: when the enumeration is over, the retained profiles are the device's
\* H264 profiles in the device's order; the setup goes on only with at least
\* one, and ends with an error when the enumeration retained none.
C28_RetainsH264InOrder ==
    mp.pc = "setup" =>
        /\ mp.stage \in {"discover", "finish", "done"} =>
              /\ [i \in 1..Len(profiles) |-> profiles[i].key] = H264Keys(mp.device_profiles)
              /\ \A i \in 1..Len(profiles) :
                    profiles[i].token = DeviceToken(profiles[i].key)
              /\ profiles # <<>>
        /\ (mp.stage = "failed" /\ mp.exc = "no_profiles") =>
              (profiles = <<>> /\ H264Keys(mp.device_profiles) = <<>>)
        /\ (mp.listed /\ mp.key = Len(mp.device_profiles)
              /\ H264Keys(mp.device_profiles) = <<>>) =>
              (mp.stage = "failed" /\ mp.exc = "no_profiles")

\* The second of two device profiles is the only H264 one, and the setup is
\* over.
C28_Witness ==
    /\ SetupDone /\ Len(mp.device_profiles) = 2
    /\ mp.device_profiles[1].encoding = "H265"
    /\ Len(profiles) = 1 /\ profiles[1].key = 1

\* The device has profiles but none is H264: the setup failed.
C28_NoneWitness ==
    /\ mp.pc = "setup" /\ mp.stage = "failed" /\ mp.exc = "no_profiles"
    /\ Len(mp.device_profiles) = 2


\* ============================================ Part 10: commands after setup
\* The commands of a set-up session: perform-PTZ as in Part 2, the preset
\* commands of the camera entity with the preset cache they keep, and the
\* commands that only talk to the device.

\* The session's extras after a setup that parsed a document.
ExtrasAfterSetup ==
    [ParseExtras([NoExtras EXCEPT !.enabled = TRUE, !.thingino_extras_source = "http"],
                 SetupDocument)
        EXCEPT !.thingino_ptz_mode = TRUE]

\* What GetPresets gives a refresh: the tokens, an error the refresh absorbs,
\* an error it does not.
RefreshResults ==
    {[kind |-> "caught", tokens |-> {}], [kind |-> "raised", tokens |-> {}]}
        \cup {[kind |-> "tokens", tokens |-> ts] : ts \in SUBSET Presets}

RefreshedPtzSynth(ptz, result) ==
    PtzProfile(TRUE, TRUE, TRUE, result.kind = "tokens", result.tokens)

\* async_refresh_presets, what it assigns to profile.ptz.
RefreshedPtz(ptz, result) ==
    IF result.kind = "caught"
    THEN IF ptz.has_ptz THEN [ptz EXCEPT !.presets_known = FALSE, !.presets = {}]
         ELSE ptz
    ELSE IF ~ptz.has_ptz THEN PtzProfile(TRUE, TRUE, TRUE, TRUE, result.tokens)
         ELSE [ptz EXCEPT !.presets_known = TRUE, !.presets = result.tokens]

\* async_refresh_presets(profile) on the profiles ps.
RefreshPresetsOf(ps, capable, profile, result) ==
    IF ~capable \/ result.kind = "raised" THEN ps
    ELSE [ps EXCEPT ![profile] = RefreshedPtz(@, result)]

\* ONVIFCameraEntity.async_set_preset after the refresh: the token joins the
\* cached list.
CacheAfterSet(ptz, token) ==
    IF token = "none" \/ ~ptz.has_ptz THEN ptz
    ELSE [ptz EXCEPT !.presets_known = TRUE,
                     !.presets = IF ptz.presets_known THEN @ \cup {token} ELSE {token}]

\* ONVIFCameraEntity.async_remove_preset after the refresh: the preset leaves
\* the cached list.
CacheAfterRemove(ptz, preset) ==
    IF ptz.has_ptz /\ ptz.presets_known /\ ptz.presets # {}
    THEN [ptz EXCEPT !.presets = @ \ {preset}]
    ELSE ptz

CommandsStart ==
    [pc |-> "commands", running |-> "none", last |-> "none", profile |-> "none",
     preset |-> "none", token |-> "none", refreshed |-> <<>>]

InitCommands ==
    /\ InitTransport /\ InitTasks /\ InitSetup
    /\ active = {"t1"}
    /\ failuresLeft = 0
    /\ commandsLeft = MaxPtzCommands
    /\ mp = CommandsStart
    /\ extras = ExtrasAfterSetup

\* No command of the entity is between two of its awaits.
NoneRunning == mp.pc = "commands" /\ mp.running = "none"
Ended(kind, profile) ==
    [CommandsStart EXCEPT !.last = kind, !.profile = profile]
\* No perform-PTZ command is between two of its awaits.
NoPtzRunning == \A t \in Tasks : cmd[t].stage \in {"idle", "done"}

\* ONVIFCameraEntity.async_set_preset up to the return of
\* device.async_set_preset with token ("none" for None).
SetPreset(profile, preset, token) ==
    /\ NoneRunning /\ NoPtzRunning
    /\ (preset = "" \/ ~capabilities_ptz) => token = "none"
    /\ mp' = IF preset = "" \/ ~capabilities_ptz \/ token = "raised"
             THEN Ended("set_preset", profile)
             ELSE [mp EXCEPT !.running = "set_preset", !.profile = profile,
                             !.token = token]
    /\ UNCHANGED <<transportVars, setupVars, taskVars, failuresLeft, commandsLeft,
                   overlap, extras>>

\* The refresh of async_set_preset is over, and the command with it.
SetPresetRefreshed(result) ==
    /\ mp.pc = "commands" /\ mp.running = "set_preset"
    /\ LET refreshed == RefreshPresetsOf(profiles, capabilities_ptz, mp.profile, result)
       IN  /\ profiles' = IF result.kind = "raised" THEN profiles
                          ELSE [refreshed EXCEPT ![mp.profile] = CacheAfterSet(@, mp.token)]
           /\ mp' = [Ended("set_preset", mp.profile) EXCEPT !.refreshed = refreshed,
                                                            !.token = mp.token]
    /\ UNCHANGED <<transportVars, capabilities_ptz, ptz_fallback, active, taskVars,
                   failuresLeft, commandsLeft, overlap, extras>>

\* ONVIFCameraEntity.async_remove_preset up to the return of
\* device.async_remove_preset.
RemovePreset(profile, preset, raised) ==
    /\ NoneRunning /\ NoPtzRunning
    /\ ~capabilities_ptz => ~raised
    /\ mp' = IF ~capabilities_ptz \/ raised THEN Ended("remove_preset", profile)
             ELSE [mp EXCEPT !.running = "remove_preset", !.profile = profile,
                             !.preset = preset]
    /\ UNCHANGED <<transportVars, setupVars, taskVars, failuresLeft, commandsLeft,
                   overlap, extras>>

\* The refresh of async_remove_preset is over, and the command with it.
RemovePresetRefreshed(result) ==
    /\ mp.pc = "commands" /\ mp.running = "remove_preset"
    /\ LET refreshed == RefreshPresetsOf(profiles, capabilities_ptz, mp.profile, result)
       IN  /\ profiles' = IF result.kind = "raised" THEN profiles
                          ELSE [refreshed EXCEPT
                                   ![mp.profile] = CacheAfterRemove(@, mp.preset)]
           /\ mp' = [Ended("remove_preset", mp.profile) EXCEPT !.refreshed = refreshed]
    /\ UNCHANGED <<transportVars, capabilities_ptz, ptz_fallback, active, taskVars,
                   failuresLeft, commandsLeft, overlap, extras>>

\* An explicit refresh: async_refresh_presets(profile).
RefreshPresets(profile, result) ==
    /\ NoneRunning /\ NoPtzRunning
    /\ LET refreshed == RefreshPresetsOf(profiles, capabilities_ptz, profile, result)
       IN  /\ profiles' = refreshed
           /\ mp' = [Ended("refresh_presets", profile) EXCEPT !.refreshed = refreshed]
    /\ UNCHANGED <<transportVars, capabilities_ptz, ptz_fallback, active, taskVars,
                   failuresLeft, commandsLeft, overlap, extras>>

\* async_goto_home(profile)
GotoHome(profile) ==
    /\ NoneRunning /\ NoPtzRunning /\ mp' = Ended("goto_home", profile)
    /\ UNCHANGED <<transportVars, setupVars, taskVars, failuresLeft, commandsLeft,
                   overlap, extras>>

\* async_set_home(profile)
SetHome(profile) ==
    /\ NoneRunning /\ NoPtzRunning /\ mp' = Ended("set_home", profile)
    /\ UNCHANGED <<transportVars, setupVars, taskVars, failuresLeft, commandsLeft,
                   overlap, extras>>

\* async_goto_preset(profile, preset, speed)
GotoPreset(profile) ==
    /\ NoneRunning /\ NoPtzRunning /\ mp' = Ended("goto_preset", profile)
    /\ UNCHANGED <<transportVars, setupVars, taskVars, failuresLeft, commandsLeft,
                   overlap, extras>>

\* async_set_relay_output_state(token, state)
SetRelayOutputState ==
    /\ NoneRunning /\ NoPtzRunning /\ mp' = Ended("set_relay_output_state", "none")
    /\ UNCHANGED <<transportVars, setupVars, taskVars, failuresLeft, commandsLeft,
                   overlap, extras>>

\* async_thingino_exec(cmd)
ThinginoExec ==
    /\ NoneRunning /\ NoPtzRunning /\ mp' = Ended("thingino_exec", "none")
    /\ UNCHANGED <<transportVars, setupVars, taskVars, failuresLeft, commandsLeft,
                   overlap, extras>>

\* async_run_aux_command(profile, cmd)
RunAuxCommand(profile) ==
    /\ NoneRunning /\ NoPtzRunning /\ mp' = Ended("run_aux_command", profile)
    /\ UNCHANGED <<transportVars, setupVars, taskVars, failuresLeft, commandsLeft,
                   overlap, extras>>

\* async_set_imaging_settings(profile, settings)
SetImagingSettings(profile) ==
    /\ NoneRunning /\ NoPtzRunning /\ mp' = Ended("set_imaging_settings", profile)
    /\ UNCHANGED <<transportVars, setupVars, taskVars, failuresLeft, commandsLeft,
                   overlap, extras>>

\* The profile of the camera entity whose commands are issued.
CacheProfiles == {"p1"}

NextCommands ==
    \/ \E t \in Tasks, p \in ProfileTokens, m \in MoveModes, d \in 0..MaxDuration,
          ps \in Presets : NoneRunning /\ PerformPtz(t, p, m, d, ps)
    \/ \E t \in Tasks : PtzSleepDone(t)
    \/ \E t \in Tasks : InvokeOk(t)
    \/ Tick
    \/ \E p \in CacheProfiles, ps \in Presets \cup {""},
          token \in Presets \cup {"none", "raised"} : SetPreset(p, ps, token)
    \/ \E result \in RefreshResults : SetPresetRefreshed(result)
    \/ \E p \in CacheProfiles, ps \in Presets, raised \in BOOLEAN : RemovePreset(p, ps, raised)
    \/ \E result \in RefreshResults : RemovePresetRefreshed(result)
    \/ \E p \in CacheProfiles, result \in RefreshResults : RefreshPresets(p, result)
    \/ \E p \in CacheProfiles : GotoHome(p)
    \/ \E p \in CacheProfiles : SetHome(p)
    \/ \E p \in CacheProfiles : GotoPreset(p)
    \/ SetRelayOutputState
    \/ ThinginoExec
    \/ \E p \in CacheProfiles : RunAuxCommand(p)
    \/ \E p \in CacheProfiles : SetImagingSettings(p)

SpecCommands == InitCommands /\ [][NextCommands]_vars

\* ============================================ properties of the commands
PtzSpaces(ps) ==
    [p \in DOMAIN ps |-> <<ps[p].has_ptz, ps[p].continuous, ps[p].relative,
                           ps[p].absolute>>]
CacheCommands == {"refresh_presets", "set_preset", "remove_preset"}

MaxStops == 2

\* The session before any async_stop; events is `self.events`, truthy or not.
StopStart(events) ==
    [pc |-> "stop", stage |-> "running", events |-> events, stops |-> 0,
     raised |-> 0, first |-> <<>>]

InitStop ==
    /\ InitTransport /\ InitTasks /\ InitSetup
    /\ active = {"t1"}
    /\ failuresLeft = MaxFailures
    /\ commandsLeft = MaxCommands
    /\ \E events \in BOOLEAN : mp = StopStart(events)
    /\ extras = NoExtras

\* What of the session a close releases.
Released == <<device, onvif_session, clientOpen, sessionOpen>>

\* async_stop returns or raises: the call is over.
StopOver(m, stage, raised, released) ==
    [m EXCEPT !.stage = stage, !.stops = @ + 1,
              !.raised = IF raised THEN @ + 1 ELSE @,
              !.first = IF m.stops = 0 THEN <<released>> ELSE @]

\* async_stop is called, no command being in flight: `if self.events: await
\* self.events.async_stop()`, else on to `await self.device.close()`.
StopBegin ==
    /\ mp.pc = "stop" /\ mp.stage \in {"running", "stopped", "stop_raised"}
    /\ mp.stops < MaxStops
    /\ \A t \in Tasks : stack[t] = <<>>
    /\ mp' = [mp EXCEPT !.stage = IF mp.events THEN "stopping_events"
                                  ELSE "closing_client"]
    /\ UNCHANGED <<transportVars, setupVars, taskVars, failuresLeft, commandsLeft,
                   overlap, extras>>

\* `await self.events.async_stop()` is over.
StopEventsDone ==
    /\ mp.pc = "stop" /\ mp.stage = "stopping_events"
    /\ mp' = [mp EXCEPT !.stage = "closing_client"]
    /\ UNCHANGED <<transportVars, setupVars, taskVars, failuresLeft, commandsLeft,
                   overlap, extras>>

\* `await self.device.close()` is over: it raised, and async_stop with it, or
\* it returned and, `if self._onvif_session and not self._onvif_session.closed`,
\* the session's close() is awaited.
StopCloseClientDone(raised) ==
    /\ mp.pc = "stop" /\ mp.stage = "closing_client"
    /\ raised => failuresLeft > 0
    /\ failuresLeft' = IF raised THEN failuresLeft - 1 ELSE failuresLeft
    /\ IF raised
       THEN /\ mp' = StopOver(mp, "stop_raised", TRUE, Released)
            /\ UNCHANGED <<clientOpen, sessionOpen>>
       ELSE /\ clientOpen' = clientOpen \ {device}
            /\ IF onvif_session \in sessionOpen
               THEN /\ sessionOpen' = sessionOpen \ {onvif_session}
                    /\ mp' = [mp EXCEPT !.stage = "closing_session"]
               ELSE /\ UNCHANGED sessionOpen
                    /\ mp' = StopOver(mp, "stopped", FALSE,
                                      <<device, onvif_session, clientOpen', sessionOpen>>)
    /\ UNCHANGED <<device, onvif_session, resolved, nextId, onvif_retry_count,
                   onvif_reset_count, setupVars, taskVars, commandsLeft, overlap,
                   extras>>

\* `await self._onvif_session.close()` is over, and async_stop with it.
StopCloseSessionDone ==
    /\ mp.pc = "stop" /\ mp.stage = "closing_session"
    /\ mp' = StopOver(mp, "stopped", FALSE, Released)
    /\ UNCHANGED <<transportVars, setupVars, taskVars, failuresLeft, commandsLeft,
                   overlap, extras>>

\* Calls are made until the session is stopped; then it is stopped, once or
\* again.
NextStop ==
    \/ \E t \in Tasks : mp.stage = "running" /\ StartCall(t)
    \/ TransportStep
    \/ StopBegin
    \/ StopEventsDone
    \/ \E raised \in BOOLEAN : StopCloseClientDone(raised)
    \/ StopCloseSessionDone

SpecStop == InitStop /\ [][NextStop]_vars

\* ============================================ properties of closing
StopCallOver == mp.pc = "stop" /\ mp.stage \in {"stopped", "stop_raised"}

\* C30: a call of async_stop raises no error and leaves the current client
\* and the current pooled session closed; a second call raises no error either
\* and leaves what the first call left.
C30_CloseReleasesIdempotent ==
    StopCallOver =>
        /\ mp.stage = "stopped"
        /\ device \notin clientOpen
        /\ onvif_session \notin sessionOpen
        /\ mp.stops = MaxStops => Released = mp.first[1]

\* The same for the calls of async_stop in which the client's close() returns.
StopReleasesWhenCloseReturns ==
    (StopCallOver /\ mp.raised = 0) =>
        /\ mp.stage = "stopped"
        /\ device \notin clientOpen
        /\ onvif_session \notin sessionOpen
        /\ mp.stops = MaxStops => Released = mp.first[1]

\* ============================================ Part 12: the configuration flow
\* Devices the user selects at once in the discovery form.
MaxSelected == 2

\* A device as the flow meets it: what GetNetworkInterfaces gives ("mac": an
\* enabled interface with a hardware address; "none": no enabled interface;
\* "not_implemented": that Fault; "fault": another Fault), whether
\* GetDeviceInformation gives a serial number, whether WS-Discovery gave a
\* device id, whether a profile is H264.
FlowDevices ==
    [mac : {"mac", "none", "not_implemented", "fault"}, serial : BOOLEAN,
     ws_id : BOOLEAN, h264 : BOOLEAN]

\* `device.get(CONF_DEVICE_ID) or f"{host}:{port}"`
DiscoveredId(d) == IF d.ws_id THEN "ws_id" ELSE "host_port"

\* async_setup_profiles on device d with self.device_id unset; failure is what
\* the connection does ("none", "attr" for AttributeError, "fault").
async_setup_profiles(d, failure) ==
    LET mac == IF d.mac = "mac" THEN "mac" ELSE ""
        id == IF mac # "" THEN mac ELSE IF d.serial THEN "serial" ELSE ""
    IN  IF failure # "none" \/ d.mac = "fault"
        THEN [outcome |-> "errors", device_id |-> mac]
        ELSE IF id = "" THEN [outcome |-> "no_mac", device_id |-> id]
        ELSE IF ~d.h264 THEN [outcome |-> "no_h264", device_id |-> id]
        ELSE [outcome |-> "ok", device_id |-> id]

\* The entry async_create_entry makes; http is where the HTTP credentials go.
FlowEntry(d, id, path, http) ==
    [device |-> d, unique_id |-> id, path |-> path, http |-> http]

InitFlow ==
    /\ InitTransport /\ InitTasks
    /\ capabilities_ptz = FALSE /\ ptz_fallback = FALSE
    /\ profiles = SetupProfiles(FALSE)
    /\ active = {}
    /\ failuresLeft = 0 /\ commandsLeft = 0
    /\ extras = NoExtras
    /\ \/ \E d \in FlowDevices :
            mp = [pc |-> "flow", step |-> "configure", selected |-> <<d>>,
                  imports |-> <<>>, entries |-> {}, result |-> "none"]
       \/ \E n \in 1..MaxSelected : \E ds \in [1..n -> FlowDevices] :
            mp = [pc |-> "flow", step |-> "bulk_auth", selected |-> ds,
                  imports |-> <<>>, entries |-> {}, result |-> "none"]

FlowUnchanged ==
    UNCHANGED <<transportVars, setupVars, taskVars, failuresLeft, commandsLeft,
                overlap, extras>>

\* async_step_configure with user input.  status is what the HTTP probe
\* reports (0 for None).
FlowConfigure(failure, status) ==
    /\ mp.pc = "flow" /\ mp.step = "configure"
    /\ LET d == mp.selected[1]
           r == async_setup_profiles(d, failure)
       IN  mp' = CASE r.outcome = "errors" -> [mp EXCEPT !.result = "form"]
                   [] r.outcome \in {"no_mac", "no_h264"} ->
                        [mp EXCEPT !.step = "done", !.result = r.outcome]
                   [] OTHER ->
                        IF status = 401
                        THEN [mp EXCEPT !.step = "http_auth", !.result = "form"]
                        ELSE [mp EXCEPT !.step = "done", !.result = "entry",
                                 !.entries = @ \cup
                                    {FlowEntry(d, r.device_id, "configure", "none")}]
    /\ FlowUnchanged

\* async_step_thingino_http_auth with user input; the device id is the one
\* async_setup_profiles left in self.device_id.
FlowHttpAuth(status) ==
    /\ mp.pc = "flow" /\ mp.step = "http_auth"
    /\ LET d == mp.selected[1]
       IN  mp' = IF status = 401 THEN [mp EXCEPT !.result = "form"]
                 ELSE [mp EXCEPT !.step = "done", !.result = "entry",
                          !.entries = @ \cup
                             {FlowEntry(d, async_setup_profiles(d, "none").device_id,
                                        "configure", "data")}]
    /\ FlowUnchanged

\* async_step_thingino_http_auth_bulk with user input, and
\* _async_create_bulk_entries within it.
FlowBulkAuth(status) ==
    /\ mp.pc = "flow" /\ mp.step = "bulk_auth"
    /\ LET first == mp.selected[1]
       IN  mp' = IF status = 401 THEN [mp EXCEPT !.result = "form"]
                 ELSE [mp EXCEPT !.step = "done", !.result = "entry",
                          !.imports = SubSeq(mp.selected, 2, Len(mp.selected)),
                          !.entries = @ \cup
                             {FlowEntry(first, DiscoveredId(first), "bulk", "options")}]
    /\ FlowUnchanged

\* async_step_import of a flow that _async_create_bulk_entries started.
FlowImport ==
    /\ mp.pc = "flow" /\ mp.imports # <<>>
    /\ LET d == Head(mp.imports)
       IN  mp' = [mp EXCEPT !.imports = Tail(@),
                     !.entries = @ \cup {FlowEntry(d, DiscoveredId(d), "import", "options")}]
    /\ FlowUnchanged

HttpStatuses == {0, 200, 401, 404}

NextFlow ==
    \/ \E failure \in {"none", "attr", "fault"}, status \in HttpStatuses :
          FlowConfigure(failure, status)
    \/ \E status \in HttpStatuses : FlowHttpAuth(status)
    \/ \E status \in HttpStatuses : FlowBulkAuth(status)
    \/ FlowImport

SpecFlow == InitFlow /\ [][NextFlow]_vars

\* ============================================ properties of the flow
Identified(d) == d.mac = "mac" \/ d.serial

\* C31: no entry is created for a device that gives neither the MAC address
\* of an enabled interface nor a serial number.
C31_NoEntryWithoutIdentifier ==
    mp.pc = "flow" => \A e \in mp.entries : Identified(e.device)

\* The same for the entries of the manual configure path alone.
ConfigureEntriesIdentified ==
    mp.pc = "flow" =>
        \A e \in mp.entries : e.path = "configure" =>
            /\ Identified(e.device)
            /\ e.unique_id \in {"mac", "serial"}

\* ============================================ Part 13: the side-channel fetch
\* Largest `retries` a caller passes to async_fetch_thingino_onvif_json.
MaxRetries == 1

\* Response bodies: objects, a list, an object in a <pre> block, a broken
\* object in a <pre> block, a page without a block, nothing.
FetchBodies ==
    { <<"{", "}">>,
      <<"{", "\"", "k", "\"", ":", "\"", "t", "\"", "}">>,
      <<"[", "]">>,
      <<"<", "p", "r", "e", ">", "{", "}", "<", "/", "p", "r", "e", ">">>,
      <<"<", "p", "r", "e", ">", "{", "l", "<", "/", "p", "r", "e", ">">>,
      <<"{", "l">>,
      <<"<", "l", ">">>,
      <<>> }

\* What one session.get gives: a response, or an aiohttp.ClientError or
\* asyncio.TimeoutError.
FetchResponses ==
    [error : {"none"}, status : HttpStatuses \ {0}, body : FetchBodies]
        \cup [error : {"client_error", "timeout"}, status : {0}, body : {<<>>}]

FetchAttemptsOverLate(attempt, retries) == attempt > retries

\* `if attempt >= retries: break`
FetchAttemptsOver(attempt, retries) == attempt >= retries

\* What the body of the `async with` returns for a response: (data, status),
\* data <<>> for None.
FetchReturn(resp) ==
    LET data == parse_thingino_onvif_payload(resp.body)
    IN  IF resp.status = 401 THEN [data |-> <<>>, status |-> 401]
        ELSE IF resp.status # 200 THEN [data |-> <<>>, status |-> resp.status]
        ELSE IF data.kind # "dict" THEN [data |-> <<>>, status |-> resp.status]
        ELSE [data |-> <<data.items>>, status |-> resp.status]

InitFetch ==
    /\ InitTransport /\ InitTasks
    /\ capabilities_ptz = FALSE /\ ptz_fallback = FALSE
    /\ profiles = SetupProfiles(FALSE)
    /\ active = {}
    /\ failuresLeft = 0 /\ commandsLeft = 0
    /\ extras = NoExtras
    /\ \E retries \in 0..MaxRetries :
          mp = [pc |-> "fetch", stage |-> "request", retries |-> retries,
                attempt |-> 0, requests |-> <<>>, data |-> <<>>, status |-> 0]

\* One pass of the for loop up to its next await: the request's outcome
\* arrives, and the function returns or sleeps before the next attempt.
FetchRequestDone(resp) ==
    /\ mp.pc = "fetch" /\ mp.stage = "request"
    /\ LET m == [mp EXCEPT !.requests = Append(@, resp)]
           r == FetchReturn(resp)
       IN  mp' = IF resp.error = "none"
                 THEN [m EXCEPT !.stage = "returned", !.data = r.data,
                                !.status = r.status]
                 ELSE IF FetchAttemptsOver(mp.attempt, mp.retries)
                 THEN [m EXCEPT !.stage = "returned"]
                 ELSE [m EXCEPT !.stage = "sleep"]
    /\ FlowUnchanged

\* `await asyncio.sleep(0.2 * (attempt + 1))` is over.
FetchSleepDone ==
    /\ mp.pc = "fetch" /\ mp.stage = "sleep"
    /\ mp' = [mp EXCEPT !.stage = "request", !.attempt = @ + 1]
    /\ FlowUnchanged

NextFetch ==
    \/ \E resp \in FetchResponses : FetchRequestDone(resp)
    \/ FetchSleepDone

SpecFetch == InitFetch /\ [][NextFetch]_vars

\* ============================================ properties of the fetch
LastRequest == mp.requests[Len(mp.requests)]

\* C32: a document is returned only with status 200 and a body that parsed to
\* a JSON object; a 401 or other non-200 response ends the fetch with that
\* status and no document; every request that was followed by another one
\* ended in a transport error or timeout; there are at most retries+1
\* requests.
C32_FetchContract ==
    mp.pc = "fetch" =>
        /\ Len(mp.requests) <= mp.retries + 1
        /\ \A i \in 1..(Len(mp.requests) - 1) : mp.requests[i].error # "none"
        /\ (mp.stage # "returned" /\ mp.requests # <<>>) => LastRequest.error # "none"
        /\ mp.stage = "returned" =>
              /\ mp.data # <<>> =>
                    /\ mp.status = 200 /\ LastRequest.error = "none"
                    /\ LastRequest.status = 200
                    /\ parse_thingino_onvif_payload(LastRequest.body).kind = "dict"
                    /\ mp.data[1] = parse_thingino_onvif_payload(LastRequest.body).items
              /\ (LastRequest.error = "none" /\ LastRequest.status # 200) =>
                    (mp.data = <<>> /\ mp.status = LastRequest.status)
              /\ LastRequest.error # "none" =>
                    (mp.data = <<>> /\ mp.status = 0
                     /\ Len(mp.requests) = mp.retries + 1)

\* A fetch whose first request timed out and whose second, last allowed
\* request returned a <pre>-wrapped object with status 200.
C32_Witness ==
    /\ mp.pc = "fetch" /\ mp.stage = "returned"
    /\ Len(mp.requests) = mp.retries + 1 /\ Len(mp.requests) >= 2
    /\ mp.requests[1].error = "timeout"
    /\ mp.data # <<>> /\ mp.status = 200
    /\ StartsWith(LastRequest.body, <<"<">>)

\* ============================================ the retried operation's client
\* C33: an operation that the retry loop invokes again after a reset runs on
\* the client that this reset created, not on the client the reset closed.
C33_RetryOnNewClient ==
    \A f \in Frames :
        (f.phase = "inflight" /\ f.attempt >= 1) =>
            (f.target \in f.created /\ f.target \notin f.old)

\* ============================================ what resets leave open
\* The ids of the client/session pairs that resets have created.
ResetCreated == 1..(nextId - 1)

\* C34: whatever the interleaving, a pooled session or a client that a reset
\* created and that is still open is the session's current one.
C34_NoLeakedConnections ==
    \A n \in ResetCreated :
        /\ n \in sessionOpen => n = onvif_session
        /\ n \in clientOpen => n = device

\* ============================================ Part 14: the continuous move's axes
\* `velocity["PanTilt"]` is set `if pan is not None or tilt is not None`,
\* `velocity["Zoom"]` `if zoom is not None`.
ContinuousVelocity(pan, tilt, zoom) ==
    [pan_tilt |-> (pan # "none" \/ tilt # "none"), zoom |-> zoom # "none"]

\* The Stop request of the Continuous branch.
ContinuousStopRequest == [pan_tilt |-> TRUE, zoom |-> FALSE]

NoAxes == [pan_tilt |-> FALSE, zoom |-> FALSE]

InitContinuous ==
    /\ InitTransport /\ InitTasks
    /\ capabilities_ptz = TRUE /\ ptz_fallback = FALSE
    /\ profiles = SetupProfiles(TRUE)
    /\ active = {}
    /\ failuresLeft = 0 /\ commandsLeft = 0
    /\ extras = NoExtras
    /\ \E pan \in PanDirections, tilt \in TiltDirections, zoom \in ZoomDirections,
          profile \in ProfileTokens, duration \in 0..MaxDuration :
          mp = [pc |-> "continuous", stage |-> "called", pan |-> pan, tilt |-> tilt,
                zoom |-> zoom, profile |-> profile, duration |-> duration,
                velocity |-> NoAxes, stop |-> NoAxes, left |-> 0]

\* async_ptz_continuous and, in it, async_perform_ptz up to the await of the
\* ContinuousMove: nothing is sent without a direction or when the profile
\* does not support the mode.
ContinuousMoveSent ==
    /\ mp.pc = "continuous" /\ mp.stage = "called"
    /\ mp' = IF mp.pan = "none" /\ mp.tilt = "none" /\ mp.zoom = "none"
             THEN [mp EXCEPT !.stage = "ignored"]
             ELSE IF Unsupported(profiles[mp.profile], CONTINUOUS_MOVE)
             THEN [mp EXCEPT !.stage = "unsupported"]
             ELSE [mp EXCEPT !.stage = "moving",
                             !.velocity = ContinuousVelocity(mp.pan, mp.tilt, mp.zoom)]
    /\ FlowUnchanged

\* The ContinuousMove returned or raised; if it returned the command sleeps
\* for the duration.
ContinuousMoveDone(raised) ==
    /\ mp.pc = "continuous" /\ mp.stage = "moving"
    /\ mp' = IF raised THEN [mp EXCEPT !.stage = "failed"]
             ELSE [mp EXCEPT !.stage = "sleep", !.left = mp.duration]
    /\ FlowUnchanged

\* Time passes in `await asyncio.sleep(continuous_duration)`.
ContinuousTick ==
    /\ mp.pc = "continuous" /\ mp.stage = "sleep" /\ mp.left > 0
    /\ mp' = [mp EXCEPT !.left = @ - 1]
    /\ FlowUnchanged

\* The sleep is over: the Stop is sent.
ContinuousStopSent ==
    /\ mp.pc = "continuous" /\ mp.stage = "sleep" /\ mp.left = 0
    /\ mp' = [mp EXCEPT !.stage = "stopped", !.stop = ContinuousStopRequest]
    /\ FlowUnchanged

NextContinuous ==
    \/ ContinuousMoveSent
    \/ \E raised \in BOOLEAN : ContinuousMoveDone(raised)
    \/ ContinuousTick
    \/ ContinuousStopSent

SpecContinuous == InitContinuous /\ [][NextContinuous]_vars

\* C35: the Stop that ends a Continuous move names every axis that the move's
\* velocity set in motion.
C35_StopCoversMovedAxes ==
    (mp.pc = "continuous" /\ mp.stage = "stopped") =>
        /\ mp.velocity.pan_tilt => mp.stop.pan_tilt
        /\ mp.velocity.zoom => mp.stop.zoom

\* The same for the pan/tilt axes alone.
StopCoversPanTilt ==
    (mp.pc = "continuous" /\ mp.stage = "stopped") =>
        (mp.velocity.pan_tilt => mp.stop.pan_tilt)

\* ============================================ where the aux entries go
\* Entry a is the on or the off half of a toggle.
InToggle(a) ==
    /\ ToggleHalf(a)
    /\ \E k \in 1..Len(extras.thingino_aux_toggles) :
          LET tg == extras.thingino_aux_toggles[k]
          IN  /\ tg.name = a.base
              /\ a.exec = IF a.state = "on" THEN tg.on_exec ELSE tg.off_exec

\* C36: after a parse every aux entry of the document that has a name and an
\* exec is the half of a toggle or a standalone command, and not both.
C36_EveryAuxEntryPlaced ==
    Parsed =>
        \A i \in 1..Len(ParsedAux) :
            InToggle(ParsedAux[i]) # Standalone(ParsedAux[i])

\* ============================================ Part 15: the stream URI
\* Requests for the stream URI that one camera entity gets in one behaviour.
MaxStreamRequests == 6

\* URIs the device may answer GetStreamUri with.
StreamUris == {"rtsp1", "rtsp2"}

IdleRequest == [stage |-> "idle", via |-> "none", got |-> ""]

StartsFetchAlways(stream_uri, future) == stream_uri = ""

\* Neither `if self._stream_uri` nor `if self._stream_uri_future` returns:
\* the caller creates the future and fetches.
StartsFetch(stream_uri, future) == stream_uri = "" /\ future = "none"

\* The entity after __init__: no URI, no future; no caller is in
\* _async_get_stream_uri.
InitStream ==
    /\ InitTransport /\ InitTasks
    /\ capabilities_ptz = FALSE /\ ptz_fallback = FALSE
    /\ profiles = SetupProfiles(FALSE)
    /\ active = Tasks
    /\ failuresLeft = 0 /\ commandsLeft = 0
    /\ extras = NoExtras
    /\ mp = [pc |-> "stream", stream_uri |-> "", future |-> "none",
             req |-> [t \in Tasks |-> IdleRequest], inflight |-> 0,
             fetched |-> <<>>, left |-> MaxStreamRequests]

\* A caller enters _async_get_stream_uri and runs to its first await or to
\* its return: the cached URI, the future (pending: it waits; done: its result
\* or its exception at once), or a fetch of its own, which starts with
\* create_media_service.
StreamRequest(t) ==
    /\ mp.pc = "stream" /\ mp.left > 0
    /\ mp.req[t].stage \in {"idle", "returned", "raised"}
    /\ LET m == [mp EXCEPT !.left = @ - 1] IN
       mp' = IF StartsFetch(mp.stream_uri, mp.future)
             THEN [m EXCEPT !.future = "pending",
                            !.req[t] = [stage |-> "media", via |-> "fetch", got |-> ""]]
             ELSE IF mp.stream_uri # ""
             THEN [m EXCEPT !.req[t] = [stage |-> "returned", via |-> "cached_uri",
                                        got |-> mp.stream_uri]]
             ELSE IF mp.future = "pending"
             THEN [m EXCEPT !.req[t] = [stage |-> "waiting", via |-> "wait", got |-> ""]]
             ELSE IF mp.future = "exception"
             THEN [m EXCEPT !.req[t] = [stage |-> "raised", via |-> "cached_failure",
                                        got |-> ""]]
             ELSE [m EXCEPT !.req[t] = [stage |-> "returned", via |-> "cached_uri",
                                        got |-> mp.stream_uri]]
    /\ FlowUnchanged

\* The fetch failed: the exception is set on the future and raised.
StreamFailed(m, t) ==
    [m EXCEPT !.future = "exception",
              !.req[t] = [stage |-> "raised", via |-> "fetch", got |-> ""],
              !.fetched = Append(@, "failed")]

\* device.async_get_stream_uri: create_media_service is over; the
\* GetStreamUri request goes out, or the error reaches the entity.
StreamMediaDone(t, ok) ==
    /\ mp.pc = "stream" /\ mp.req[t].stage = "media"
    /\ mp' = IF ok THEN [mp EXCEPT !.req[t].stage = "fetching", !.inflight = @ + 1]
             ELSE StreamFailed(mp, t)
    /\ FlowUnchanged

\* GetStreamUri is over: with a URI, which the entity stores and sets as the
\* future's result, or with an error.
StreamFetchDone(t, uri) ==
    /\ mp.pc = "stream" /\ mp.req[t].stage = "fetching"
    /\ LET m == [mp EXCEPT !.inflight = @ - 1] IN
       mp' = IF uri = "" THEN StreamFailed(m, t)
             ELSE [m EXCEPT !.stream_uri = uri, !.future = "result",
                            !.req[t] = [stage |-> "returned", via |-> "fetch",
                                        got |-> uri],
                            !.fetched = Append(@, uri)]
    /\ FlowUnchanged

\* A caller that awaits the future resumes once the future is done.
StreamWaitDone(t) ==
    /\ mp.pc = "stream" /\ mp.req[t].stage = "waiting"
    /\ mp.future \in {"result", "exception"}
    /\ mp' = IF mp.future = "result"
             THEN [mp EXCEPT !.req[t].stage = "returned", !.req[t].got = mp.stream_uri]
             ELSE [mp EXCEPT !.req[t].stage = "raised"]
    /\ FlowUnchanged

NextStream ==
    \/ \E t \in Tasks : StreamRequest(t)
    \/ \E t \in Tasks, ok \in BOOLEAN : StreamMediaDone(t, ok)
    \/ \E t \in Tasks, uri \in StreamUris \cup {""} : StreamFetchDone(t, uri)
    \/ \E t \in Tasks : StreamWaitDone(t)

SpecStream == InitStream /\ [][NextStream]_vars

\* ============================================ properties of the stream URI
\* C37: a request that arrives after a fetch has failed starts a fetch; no
\* request is answered with a failure it found stored.
C37_FailureNotCached ==
    mp.pc = "stream" => \A t \in Tasks : mp.req[t].via # "cached_failure"

\* C38: at most one GetStreamUri request is in flight; a caller that waited
\* for a pending fetch and returned has the URI that fetch stored; and once a
\* fetch has succeeded no other GetStreamUri request is made.
C38_SingleFetch ==
    mp.pc = "stream" =>
        /\ mp.inflight <= 1
        /\ Cardinality({t \in Tasks : mp.req[t].stage \in {"media", "fetching"}}) <= 1
        /\ \A t \in Tasks :
              mp.req[t].stage = "returned" =>
                 (mp.req[t].got = mp.stream_uri /\ mp.stream_uri # "")
        /\ \A i \in 1..Len(mp.fetched) : mp.fetched[i] # "failed" => i = Len(mp.fetched)
        /\ mp.stream_uri # "" =>
              (mp.inflight = 0 /\ mp.fetched # <<>>
               /\ mp.fetched[Len(mp.fetched)] = mp.stream_uri)

\* One caller fetched the URI, another waited for that fetch and has the same
\* URI, and a request after that was answered from the cache.
C38_Witness ==
    /\ mp.pc = "stream" /\ mp.left = 0
    /\ \E t, u \in Tasks :
          /\ mp.req[t].stage = "returned" /\ mp.req[t].via = "cached_uri"
          /\ mp.req[u].stage = "returned" /\ mp.req[u].via = "wait"
          /\ mp.req[u].got = mp.stream_uri
    /\ Len(mp.fetched) = 1

\* ============================================ Part 16: the cached preset lists
\* profile.ptz.presets as the list it is: None, or the tokens in order.
NoPresetList == [known |-> FALSE, list |-> <<>>]
PresetList(tokens) == [known |-> TRUE, list |-> tokens]

\* What GetPresets lists for a profile: each token of the device once, in
\* some order (the tokens are the device's identifiers of its presets).
DevicePresetLists == {<<>>, <<"1">>, <<"2">>, <<"1", "2">>, <<"2", "1">>}

\* The outcomes of async_refresh_presets: the list is replaced, None is
\* stored after an absorbed error, or an error leaves the refresh.
ListRefreshes ==
    {[kind |-> "caught", tokens |-> <<>>], [kind |-> "raised", tokens |-> <<>>]}
        \cup {[kind |-> "tokens", tokens |-> ts] : ts \in DevicePresetLists}

\* async_refresh_presets on a profile that has a PTZ configuration.
ListAfterRefresh(presets, result) ==
    CASE result.kind = "caught" -> NoPresetList
      [] result.kind = "tokens" -> PresetList(result.tokens)
      [] OTHER -> presets

ListAfterSetAppended(presets, token) ==
    IF token = "none" THEN presets ELSE PresetList(Append(presets.list, token))

\* async_set_preset of the entity, after its refresh: `if token and
\* self.profile.ptz`, the token starts the list or joins it if it is not in it.
ListAfterSet(presets, token) ==
    IF token = "none" THEN presets
    ELSE IF ~presets.known THEN PresetList(<<token>>)
    ELSE IF \E i \in 1..Len(presets.list) : presets.list[i] = token THEN presets
    ELSE PresetList(Append(presets.list, token))

\* list.remove(preset) under suppress(ValueError): the first occurrence goes.
RemoveFirst(list, preset) ==
    LET hits == {i \in 1..Len(list) : list[i] = preset}
    IN  IF hits = {} THEN list
        ELSE LET first == CHOOSE i \in hits : \A j \in hits : i <= j
             IN  SubSeq(list, 1, first - 1) \o SubSeq(list, first + 1, Len(list))

\* async_remove_preset of the entity, after its refresh.
ListAfterRemove(presets, preset) ==
    IF presets.known /\ presets.list # <<>>
    THEN PresetList(RemoveFirst(presets.list, preset))
    ELSE presets

PresetEntities == {"p0", "p1"}
NoPresetCommand ==
    [kind |-> "none", stage |-> "idle", preset |-> "none", token |-> "none",
     refreshed |-> NoPresetList]

\* A PTZ-capable session after setup; every profile has its entity, and the
\* list setup stored for it.
InitPresets ==
    /\ InitTransport /\ InitTasks
    /\ capabilities_ptz = TRUE /\ ptz_fallback = FALSE
    /\ profiles = SetupProfiles(TRUE)
    /\ active = {}
    /\ failuresLeft = 0 /\ commandsLeft = 0
    /\ extras = NoExtras
    /\ \E lists \in [PresetEntities -> {NoPresetList, PresetList(<<>>), PresetList(<<"1">>)}] :
          mp = [pc |-> "presets", cache |-> lists,
                run |-> [p \in PresetEntities |-> NoPresetCommand]]

\* The entity's async_set_preset up to the return of device.async_set_preset:
\* with a token ("none" for None), or with an error that leaves the command.
PresetSet(p, preset, token) ==
    /\ mp.pc = "presets" /\ mp.run[p].stage \in {"idle", "returned", "raised"}
    /\ mp' = [mp EXCEPT !.run[p] =
                 [NoPresetCommand EXCEPT !.kind = "set", !.preset = preset,
                     !.token = IF token = "raised" THEN "none" ELSE token,
                     !.stage = IF token = "raised" THEN "raised" ELSE "refresh"]]
    /\ FlowUnchanged

\* The entity's async_remove_preset up to the return of
\* device.async_remove_preset.
PresetRemove(p, preset, raised) ==
    /\ mp.pc = "presets" /\ mp.run[p].stage \in {"idle", "returned", "raised"}
    /\ mp' = [mp EXCEPT !.run[p] =
                 [NoPresetCommand EXCEPT !.kind = "remove", !.preset = preset,
                     !.stage = IF raised THEN "raised" ELSE "refresh"]]
    /\ FlowUnchanged

\* The refresh inside the command is over; the command updates the list and
\* returns, or the refresh's error leaves the command.
PresetRefreshed(p, result) ==
    /\ mp.pc = "presets" /\ mp.run[p].stage = "refresh"
    /\ LET c == mp.run[p]
           refreshed == ListAfterRefresh(mp.cache[p], result)
       IN  mp' = IF result.kind = "raised"
                 THEN [mp EXCEPT !.run[p].stage = "raised"]
                 ELSE [mp EXCEPT
                         !.cache[p] = IF c.kind = "set"
                                      THEN ListAfterSet(refreshed, c.token)
                                      ELSE ListAfterRemove(refreshed, c.preset),
                         !.run[p].stage = "returned",
                         !.run[p].refreshed = refreshed]
    /\ FlowUnchanged

NextPresets ==
    \/ \E p \in PresetEntities, ps \in Presets, token \in Presets \cup {"none", "raised"} :
          PresetSet(p, ps, token)
    \/ \E p \in PresetEntities, ps \in Presets, raised \in BOOLEAN :
          PresetRemove(p, ps, raised)
    \/ \E p \in PresetEntities, result \in ListRefreshes : PresetRefreshed(p, result)

SpecPresets == InitPresets /\ [][NextPresets]_vars

\* ============================================ properties of the preset lists
Occurrences(list, token) == Cardinality({i \in 1..Len(list) : list[i] = token})

\* C39: when set-preset returns with token t, t is exactly once in the cached
\* list of its profile; when remove-preset(p) returns, p is not in the cached
\* list of its profile; the step changes no other profile's list.
C39_PresetListAfterCommand ==
    [][mp.pc = "presets" =>
        \A p \in PresetEntities :
            (mp.run[p].stage = "refresh" /\ mp'.run[p].stage = "returned") =>
                /\ (mp.run[p].kind = "set" /\ mp.run[p].token # "none") =>
                      (mp'.cache[p].known
                       /\ Occurrences(mp'.cache[p].list, mp.run[p].token) = 1)
                /\ mp.run[p].kind = "remove" =>
                      Occurrences(mp'.cache[p].list, mp.run[p].preset) = 0
                /\ \A q \in PresetEntities \ {p} : mp'.cache[q] = mp.cache[q]]_vars

\* A set-preset has returned with a token that its refresh had already
\* listed, while the other profile holds a list of its own.
C39_Witness ==
    /\ mp.pc = "presets"
    /\ \E p \in PresetEntities :
          /\ mp.run[p].kind = "set" /\ mp.run[p].stage = "returned"
          /\ mp.run[p].token # "none"
          /\ Occurrences(mp.run[p].refreshed.list, mp.run[p].token) = 1
          /\ Len(mp.cache[p].list) = 2
          /\ \E q \in PresetEntities \ {p} : mp.cache[q].list # <<>>

\* ============================================ Part 17: the PTZ capability guard
\* The device-level PTZ commands with the calls each one issues.

PtzCommandCallsUnguarded(capable, request, service_ok) ==
    IF ~service_ok THEN <<"create_ptz_service">>
    ELSE <<"create_ptz_service", request>>

\* The calls of a PTZ command: none without the capability (`if not
\* self.capabilities.ptz: return`); else create_ptz_service, and the request
\* when the service was created.
PtzCommandCalls(capable, request, service_ok) ==
    IF ~capable THEN <<>>
    ELSE IF ~service_ok THEN <<"create_ptz_service">>
    ELSE <<"create_ptz_service", request>>

\* Perform-PTZ commands in one behaviour of the guard's specification.
GuardMoves == 1

GuardStart == [pc |-> "guard", last |-> "none", profile |-> "none", calls |-> <<>>]

\* The session after setup, with or without the PTZ capability; the device
\* answers every call it gets.
InitGuard ==
    /\ InitTransport /\ InitTasks /\ InitSetup
    /\ active = {"t1"}
    /\ failuresLeft = 0
    /\ commandsLeft = GuardMoves
    /\ mp = GuardStart
    /\ extras = ExtrasAfterSetup

\* A command that sends one request and keeps nothing of the answer.
GuardedRequest(kind, request, profile, service_ok) ==
    /\ mp.pc = "guard" /\ NoPtzRunning
    /\ mp' = [GuardStart EXCEPT !.last = kind, !.profile = profile,
                 !.calls = PtzCommandCalls(capabilities_ptz, request, service_ok)]
    /\ UNCHANGED <<transportVars, setupVars, taskVars, failuresLeft, commandsLeft,
                   overlap, extras>>

async_goto_home(profile, service_ok) ==
    GuardedRequest("goto_home", "GotoHomePosition", profile, service_ok)
async_set_home(profile, service_ok) ==
    GuardedRequest("set_home", "SetHomePosition", profile, service_ok)
async_goto_preset(profile, service_ok) ==
    GuardedRequest("goto_preset", "GotoPreset", profile, service_ok)
async_set_preset(profile, service_ok) ==
    GuardedRequest("set_preset", "SetPreset", profile, service_ok)
async_remove_preset(profile, service_ok) ==
    GuardedRequest("remove_preset", "RemovePreset", profile, service_ok)

\* async_refresh_presets: the one command that stores what the device said.
async_refresh_presets(profile, service_ok, result) ==
    /\ mp.pc = "guard" /\ NoPtzRunning
    /\ ~service_ok => result.kind # "tokens"
    /\ mp' = [GuardStart EXCEPT !.last = "refresh_presets", !.profile = profile,
                 !.calls = PtzCommandCalls(capabilities_ptz, "GetPresets", service_ok)]
    /\ profiles' = RefreshPresetsOf(profiles, capabilities_ptz, profile, result)
    /\ UNCHANGED <<transportVars, capabilities_ptz, ptz_fallback, active, taskVars,
                   failuresLeft, commandsLeft, overlap, extras>>

NextGuard ==
    \/ \E t \in Tasks, p \in ProfileTokens, m \in MoveModes, d \in 0..MaxDuration,
          ps \in Presets : mp.pc = "guard" /\ NoPtzRunning /\ PerformPtz(t, p, m, d, ps)
    \/ \E t \in Tasks : PtzSleepDone(t)
    \/ \E t \in Tasks : InvokeOk(t)
    \/ Tick
    \/ \E p \in CacheProfiles, ok \in BOOLEAN : async_goto_home(p, ok)
    \/ \E p \in CacheProfiles, ok \in BOOLEAN : async_set_home(p, ok)
    \/ \E p \in CacheProfiles, ok \in BOOLEAN : async_goto_preset(p, ok)
    \/ \E p \in CacheProfiles, ok \in BOOLEAN : async_set_preset(p, ok)
    \/ \E p \in CacheProfiles, ok \in BOOLEAN : async_remove_preset(p, ok)
    \/ \E p \in CacheProfiles, ok \in BOOLEAN, result \in RefreshResults :
          async_refresh_presets(p, ok, result)

SpecGuard == InitGuard /\ [][NextGuard]_vars

\* ============================================ properties of the guard
\* C40: without the PTZ capability no PTZ command issues a call to the
\* device (perform-PTZ in any mode, goto-home, set-home, goto-preset,
\* set-preset, remove-preset, refresh-presets), and each returns with the
\* session's transport, capabilities, profiles and extras as they were.
C40_NoPtzWithoutCapability ==
    [][~capabilities_ptz =>
        /\ UNCHANGED <<transportVars, setupVars, extras>>
        /\ mp'.calls = <<>>
        /\ \A t \in Tasks : cmd'[t].log = <<>> /\ stack'[t] = <<>>]_vars

\* Without the capability, a perform-PTZ command and a preset command have
\* both returned.
C40_Witness ==
    /\ mp.pc = "guard" /\ ~capabilities_ptz
    /\ mp.last = "set_preset" /\ mp.calls = <<>>
    /\ \E t \in Tasks : cmd[t].kind = "ptz" /\ cmd[t].stage = "done"
                        /\ cmd[t].mode = CONTINUOUS_MOVE

====
